---- MODULE Spec2Model ----
(***************************************************************************)
(* A model of the datasketches core: the Frequent-Items sketch with its    *)
(* reverse-purge hash map, and the compact Theta sketch with its wire      *)
(* formats and bit-packing codec.                                          *)
(*                                                                         *)
(* Arrays are 0-based in the source and 1-based here: slot p of an array   *)
(* is element p + 1 of the sequence that models it.                        *)
(***************************************************************************)
EXTENDS Integers, Sequences, FiniteSets, TLC

(***************************************************************************)
(* Bounds of the model.                                                    *)
(***************************************************************************)
\* items are the integers 1..NumItems
NumItems == 7
\* the largest count passed to update_with_count
MaxCount == 2
\* the largest total weight of one stream
MaxWeight == 8
\* the largest total weight of the stream of the sketch that receives a merge
MaxWeightA == 1
\* the largest threshold passed to frequent_items_with_threshold
MaxThreshold == 3

(***************************************************************************)
(* Program constants.                                                      *)
(***************************************************************************)
LG_MIN_MAP_SIZE == 3
SAMPLE_SIZE == 1024
MAX_SAMPLE_SIZE == 1024
LOAD_FACTOR_NUMERATOR == 3
LOAD_FACTOR_DENOMINATOR == 4

Items == 1..NumItems
Counts == 1..MaxCount
\* the values of max_map_size passed to new()
MaxMapSizes == {8, 16}

RECURSIVE Pow2(_)
Pow2(n) == IF n = 0 THEN 1 ELSE 2 * Pow2(n - 1)

RECURSIVE TrailingZeros(_)
TrailingZeros(n) == IF n % 2 = 1 THEN 0 ELSE 1 + TrailingZeros(n \div 2)

Min(a, b) == IF a < b THEN a ELSE b
Max(a, b) == IF a > b THEN a ELSE b

(***************************************************************************)
(* ReversePurgeItemHashMap                                                 *)
(***************************************************************************)
\* keys[i] == None
NoKey == 0

\* The 64-bit hash of an item. Distinct items may share a home slot, and a
\* cluster may wrap around the end of the array.
HashItem(item) == (11 * item) \div 2

MapLen(m) == Len(m.keys)

RPNew(map_size) ==
    [ lg_length      |-> TrailingZeros(map_size),
      load_threshold |-> (map_size * 3) \div 4,
      keys           |-> [i \in 1..map_size |-> NoKey],
      values         |-> [i \in 1..map_size |-> 0],
      states         |-> [i \in 1..map_size |-> 0],
      num_active     |-> 0 ]

RECURSIVE HashProbeLoop(_, _, _)
HashProbeLoop(m, key, probe) ==
    IF m.states[probe + 1] > 0 /\ m.keys[probe + 1] # key
    THEN HashProbeLoop(m, key, (probe + 1) % MapLen(m))
    ELSE probe

HashProbe(m, key) == HashProbeLoop(m, key, HashItem(key) % MapLen(m))

Get(m, key) ==
    LET probe == HashProbe(m, key)
    IN  IF m.states[probe + 1] > 0 THEN m.values[probe + 1] ELSE 0

\* the probe loop of adjust_or_put_value: <<probe, drift>> where it stops
RECURSIVE PutProbeLoop(_, _, _, _)
PutProbeLoop(m, key, probe, drift) ==
    IF m.states[probe + 1] # 0 /\ m.keys[probe + 1] # key
    THEN PutProbeLoop(m, key, (probe + 1) % MapLen(m), drift + 1)
    ELSE <<probe, drift>>

AdjustOrPutValue(m, key, adjust_amount) ==
    LET pd    == PutProbeLoop(m, key, HashItem(key) % MapLen(m), 1)
        probe == pd[1]
        drift == pd[2]
    IN  IF m.states[probe + 1] = 0
        THEN [m EXCEPT !.keys[probe + 1]   = key,
                       !.values[probe + 1] = adjust_amount,
                       !.states[probe + 1] = drift,
                       !.num_active        = @ + 1]
        ELSE [m EXCEPT !.values[probe + 1] = @ + adjust_amount]

RECURSIVE HashDeleteLoop(_, _, _, _)
HashDeleteLoop(m, delete_probe, probe, drift) ==
    IF m.states[probe + 1] = 0
    THEN m
    ELSE IF m.states[probe + 1] > drift
         THEN HashDeleteLoop(
                  [m EXCEPT !.keys[delete_probe + 1]   = m.keys[probe + 1],
                            !.keys[probe + 1]          = NoKey,
                            !.values[delete_probe + 1] = m.values[probe + 1],
                            !.states[delete_probe + 1] = m.states[probe + 1] - drift,
                            !.states[probe + 1]        = 0],
                  probe, (probe + 1) % MapLen(m), 1)
         ELSE HashDeleteLoop(m, delete_probe, (probe + 1) % MapLen(m), drift + 1)

\* variant: the slot is cleared and the entries after it are left where they are
HashDelete_NoShift(m, delete_probe) ==
    [m EXCEPT !.states[delete_probe + 1] = 0,
              !.keys[delete_probe + 1]   = NoKey]

HashDelete(m, delete_probe) ==
    HashDeleteLoop([m EXCEPT !.states[delete_probe + 1] = 0,
                             !.keys[delete_probe + 1]   = NoKey],
                   delete_probe, (delete_probe + 1) % MapLen(m), 1)

\* the last slot whose state is 0, scanning down from p
RECURSIVE FirstProbeLoop(_, _)
FirstProbeLoop(m, p) ==
    IF m.states[p + 1] > 0 THEN FirstProbeLoop(m, p - 1) ELSE p

\* one of the two descending loops of keep_only_positive_counts: probe
\* runs from hi down to lo
RECURSIVE KeepLoop(_, _, _)
KeepLoop(m, probe, lo) ==
    IF probe < lo
    THEN m
    ELSE IF m.states[probe + 1] > 0 /\ m.values[probe + 1] = 0
         THEN KeepLoop([HashDelete(m, probe) EXCEPT !.num_active = @ - 1],
                       probe - 1, lo)
         ELSE KeepLoop(m, probe - 1, lo)

\* variant: only the loop over the slots below first_probe runs
KeepOnlyPositiveCounts_FrontOnly(m) ==
    KeepLoop(m, FirstProbeLoop(m, MapLen(m) - 1) - 1, 0)

KeepOnlyPositiveCounts(m) ==
    LET len         == MapLen(m)
        first_probe == FirstProbeLoop(m, len - 1)
        front       == KeepLoop(m, first_probe - 1, 0)
    IN  KeepLoop(front, len - 1, first_probe)

\* u64::saturating_sub on every slot, active or not
AdjustAllValuesBy(m, adjust_amount) ==
    [m EXCEPT !.values = [i \in 1..MapLen(m) |->
                            IF m.values[i] > adjust_amount
                            THEN m.values[i] - adjust_amount ELSE 0]]

\* the values of the first `limit` active slots, in slot order
RECURSIVE SampleLoop(_, _, _, _)
SampleLoop(m, i, limit, samples) ==
    IF Len(samples) >= limit
    THEN samples
    ELSE SampleLoop(m, i + 1, limit,
                    IF m.states[i + 1] > 0
                    THEN Append(samples, m.values[i + 1]) ELSE samples)

\* samples[mid] after select_nth_unstable(mid): the element of rank mid
NthSmallest(samples, mid) ==
    CHOOSE v \in {samples[i] : i \in 1..Len(samples)} :
        /\ Cardinality({i \in 1..Len(samples) : samples[i] < v}) <= mid
        /\ Cardinality({i \in 1..Len(samples) : samples[i] <= v}) > mid

\* variant: the values are lowered and the counters that reached zero stay
Purge_NoSweep(m, sample_size) ==
    LET limit   == Min(Min(sample_size, m.num_active), MAX_SAMPLE_SIZE)
        samples == SampleLoop(m, 0, limit, <<>>)
        median  == NthSmallest(samples, Len(samples) \div 2)
    IN  [ map    |-> AdjustAllValuesBy(m, median),
          median |-> median ]

\* purge returns the median; the purged map comes with it
Purge(m, sample_size) ==
    LET limit   == Min(Min(sample_size, m.num_active), MAX_SAMPLE_SIZE)
        samples == SampleLoop(m, 0, limit, <<>>)
        mid     == Len(samples) \div 2
        median  == NthSmallest(samples, mid)
    IN  [ map    |-> KeepOnlyPositiveCounts(AdjustAllValuesBy(m, median)),
          median |-> median ]

RECURSIVE ResizeLoop(_, _, _)
ResizeLoop(new, old, i) ==
    IF i >= MapLen(old)
    THEN new
    ELSE ResizeLoop(IF old.states[i + 1] > 0 /\ old.keys[i + 1] # NoKey
                    THEN AdjustOrPutValue(new, old.keys[i + 1], old.values[i + 1])
                    ELSE new,
                    old, i + 1)

Resize(m, new_size) == ResizeLoop(RPNew(new_size), m, 0)

\* active_keys / active_values: the active slots in slot order
ActiveSlots(m) ==
    LET F[i \in 0..MapLen(m)] ==
            IF i = 0 THEN <<>>
            ELSE IF m.states[i] > 0 THEN Append(F[i - 1], i) ELSE F[i - 1]
    IN  F[MapLen(m)]

ActiveKeys(m) ==
    IF m.num_active = 0 THEN <<>>
    ELSE LET a == SelectSeq(ActiveSlots(m), LAMBDA i : m.keys[i] # NoKey)
         IN  [j \in 1..Len(a) |-> m.keys[a[j]]]

ActiveValues(m) ==
    IF m.num_active = 0 THEN <<>>
    ELSE LET a == ActiveSlots(m) IN [j \in 1..Len(a) |-> m.values[a[j]]]

\* ReversePurgeItemIter: the slots (k * stride) mod size for k = 0, 1, ...
\* until num_active active ones were seen; stride = floor(size * phi) | 1
IterStride(size) ==
    LET s == (size * 618034) \div 1000000
    IN  IF s % 2 = 0 THEN s + 1 ELSE s

Iter(m) ==
    LET size   == MapLen(m)
        stride == IterStride(size)
        F[k \in 0..size] ==
            IF k = 0 THEN <<>>
            ELSE LET idx  == ((k - 1) * stride) % size
                     seen == F[k - 1]
                 IN  IF m.states[idx + 1] > 0 /\ Len(seen) < m.num_active
                     THEN Append(seen, <<m.keys[idx + 1], m.values[idx + 1]>>)
                     ELSE seen
    IN  F[size]

(***************************************************************************)
(* FrequentItemsSketch                                                     *)
(***************************************************************************)
WithLgMapSizes(lg_max_map_size, lg_cur_map_size) ==
    LET lg_max      == Max(lg_max_map_size, LG_MIN_MAP_SIZE)
        lg_cur      == Max(lg_cur_map_size, LG_MIN_MAP_SIZE)
        map         == RPNew(Pow2(lg_cur))
        max_map_cap == (Pow2(lg_max) * LOAD_FACTOR_NUMERATOR) \div LOAD_FACTOR_DENOMINATOR
    IN  [ lg_max_map_size |-> lg_max,
          cur_map_cap     |-> map.load_threshold,
          offset          |-> 0,
          stream_weight   |-> 0,
          sample_size     |-> Min(SAMPLE_SIZE, max_map_cap),
          hash_map        |-> map,
          panicked        |-> FALSE ]

\* exact_log2
ExactLog2(value) == TrailingZeros(value)

New(max_map_size) == WithLgMapSizes(ExactLog2(max_map_size), LG_MIN_MAP_SIZE)

IsEmpty(s) == s.hash_map.num_active = 0
NumActiveItems(s) == s.hash_map.num_active
TotalWeight(s) == s.stream_weight

Estimate(s, item) ==
    LET value == Get(s.hash_map, item)
    IN  IF value > 0 THEN value + s.offset ELSE 0

LowerBound(s, item) == Get(s.hash_map, item)
UpperBound(s, item) == Get(s.hash_map, item) + s.offset
MaximumError(s) == s.offset

MaximumMapCapacity(s) ==
    (Pow2(s.lg_max_map_size) * LOAD_FACTOR_NUMERATOR) \div LOAD_FACTOR_DENOMINATOR

\* variant: the purge branch does not add the median to the offset
MaybeResizeOrPurge_KeepOffset(s) ==
    IF s.hash_map.num_active > s.cur_map_cap
    THEN IF s.hash_map.lg_length < s.lg_max_map_size
         THEN LET map == Resize(s.hash_map, MapLen(s.hash_map) * 2)
              IN  [s EXCEPT !.hash_map = map, !.cur_map_cap = map.load_threshold]
         ELSE LET p == Purge(s.hash_map, s.sample_size)
              IN  [s EXCEPT !.hash_map = p.map]
    ELSE s

\* variant: the map is purged as soon as it is over its current capacity,
\* without growing to its maximum size first
MaybeResizeOrPurge_NeverResize(s) ==
    IF s.hash_map.num_active > s.cur_map_cap
    THEN LET p == Purge(s.hash_map, s.sample_size)
         IN  [s EXCEPT !.hash_map = p.map, !.offset = @ + p.median]
    ELSE s

MaybeResizeOrPurge(s) ==
    IF s.hash_map.num_active > s.cur_map_cap
    THEN IF s.hash_map.lg_length < s.lg_max_map_size
         THEN LET map == Resize(s.hash_map, MapLen(s.hash_map) * 2)
              IN  [s EXCEPT !.hash_map = map, !.cur_map_cap = map.load_threshold]
         ELSE LET p == Purge(s.hash_map, s.sample_size)
              IN  [s EXCEPT !.hash_map = p.map,
                            !.offset   = @ + p.median,
                            !.panicked = @ \/ p.map.num_active > MaximumMapCapacity(s)]
    ELSE s

UpdateWithCount(s, item, count) ==
    IF count = 0
    THEN s
    ELSE MaybeResizeOrPurge(
             [s EXCEPT !.stream_weight = @ + count,
                       !.hash_map      = AdjustOrPutValue(@, item, count)])

Update(s, item) == UpdateWithCount(s, item, 1)

RECURSIVE MergeLoop(_, _, _)
MergeLoop(s, rows, i) ==
    IF i > Len(rows)
    THEN s
    ELSE MergeLoop(UpdateWithCount(s, rows[i][1], rows[i][2]), rows, i + 1)

\* variant: the stream weight accumulated while feeding the peer's counters
\* is kept instead of being set to the sum of the two stream weights
Merge_KeepFedWeight(s, other) ==
    IF IsEmpty(other)
    THEN s
    ELSE LET fed == MergeLoop(s, Iter(other.hash_map), 1)
         IN  [fed EXCEPT !.offset = @ + other.offset]

Merge(s, other) ==
    IF IsEmpty(other)
    THEN s
    ELSE LET merged_total == s.stream_weight + other.stream_weight
             fed          == MergeLoop(s, Iter(other.hash_map), 1)
         IN  [fed EXCEPT !.offset        = @ + other.offset,
                         !.stream_weight = merged_total]

\* variant: the new map keeps the length the old one had grown to
Reset_KeepMapSize(s) == WithLgMapSizes(s.lg_max_map_size, s.hash_map.lg_length)

Reset(s) == WithLgMapSizes(s.lg_max_map_size, LG_MIN_MAP_SIZE)

\* ErrorType
NoFalseNegatives == "NoFalseNegatives"
NoFalsePositives == "NoFalsePositives"

\* rows.sort_by(|a, b| b.estimate.cmp(&a.estimate)): a stable sort, estimate
\* descending
RECURSIVE SortRows(_)
SortRows(rows) ==
    IF Len(rows) <= 1
    THEN rows
    ELSE LET last   == rows[Len(rows)]
             front  == SortRows(SubSeq(rows, 1, Len(rows) - 1))
             before == SelectSeq(front, LAMBDA r : r.estimate >= last.estimate)
             after  == SelectSeq(front, LAMBDA r : r.estimate < last.estimate)
         IN  before \o <<last>> \o after

FrequentItemsWithThreshold(s, error_type, threshold) ==
    LET t       == Max(threshold, s.offset)
        entries == Iter(s.hash_map)
        include(e) ==
            IF error_type = NoFalseNegatives
            THEN e[2] + s.offset > t
            ELSE e[2] > t
        kept    == SelectSeq(entries, include)
    IN  SortRows([j \in 1..Len(kept) |->
                    [ item        |-> kept[j][1],
                      estimate    |-> kept[j][2] + s.offset,
                      upper_bound |-> kept[j][2] + s.offset,
                      lower_bound |-> kept[j][2] ]])

FrequentItems(s, error_type) == FrequentItemsWithThreshold(s, error_type, s.offset)

(***************************************************************************)
(* Frequent-Items wire format                                              *)
(***************************************************************************)
FAMILY_ID == 10
SER_VER == 1
PREAMBLE_LONGS_EMPTY == 1
PREAMBLE_LONGS_NONEMPTY == 4
EMPTY_FLAG_MASK == 5
PREAMBLE_LONGS_BYTE == 0
SER_VER_BYTE == 1
FAMILY_BYTE == 2
LG_MAX_MAP_SIZE_BYTE == 3
LG_CUR_MAP_SIZE_BYTE == 4
FLAGS_BYTE == 5
ACTIVE_ITEMS_INT == 8
STREAM_WEIGHT_LONG == 16
OFFSET_LONG == 24

RECURSIVE BitAnd(_, _)
BitAnd(a, b) ==
    IF a = 0 \/ b = 0 THEN 0
    ELSE (a % 2) * (b % 2) + 2 * BitAnd(a \div 2, b \div 2)

RECURSIVE BitOr(_, _)
BitOr(a, b) ==
    IF a = 0 THEN b
    ELSE IF b = 0 THEN a
    ELSE Max(a % 2, b % 2) + 2 * BitOr(a \div 2, b \div 2)

\* value.to_le_bytes() truncated or zero-extended to n bytes
RECURSIVE LeBytes(_, _)
LeBytes(value, n) ==
    IF n = 0 THEN <<>> ELSE <<value % 256>> \o LeBytes(value \div 256, n - 1)

\* from_le_bytes of the n bytes at offset
RECURSIVE ReadLe(_, _, _)
ReadLe(bytes, offset, n) ==
    IF n = 0 THEN 0 ELSE bytes[offset + 1] + 256 * ReadLe(bytes, offset + 1, n - 1)

\* bytes[offset..offset + len].copy_from_slice(src)
WriteAt(bytes, offset, src) ==
    [i \in 1..Len(bytes) |->
        IF i > offset /\ i <= offset + Len(src) THEN src[i - offset] ELSE bytes[i]]

Zeros(n) == [i \in 1..n |-> 0]

RECURSIVE Concat(_)
Concat(seqs) == IF seqs = <<>> THEN <<>> ELSE Head(seqs) \o Concat(Tail(seqs))

\* serialize_i64_items
SerializeI64Items(items) == Concat([j \in 1..Len(items) |-> LeBytes(items[j], 8)])

\* deserialize_i64_items: (items, consumed) or an error
DeserializeI64Items(bytes, num_items) ==
    LET needed == num_items * 8
    IN  IF Len(bytes) < needed
        THEN [ok |-> FALSE, err |-> "insufficient data: not enough bytes for i64 items"]
        ELSE [ok       |-> TRUE,
              items    |-> [j \in 1..num_items |-> ReadLe(bytes, (j - 1) * 8, 8)],
              consumed |-> needed]

\* serialize_inner with serialize_i64_items
Serialize(s) ==
    IF IsEmpty(s)
    THEN WriteAt(WriteAt(WriteAt(WriteAt(WriteAt(WriteAt(Zeros(8),
             PREAMBLE_LONGS_BYTE, <<PREAMBLE_LONGS_EMPTY>>),
             SER_VER_BYTE, <<SER_VER>>),
             FAMILY_BYTE, <<FAMILY_ID>>),
             LG_MAX_MAP_SIZE_BYTE, <<s.lg_max_map_size>>),
             LG_CUR_MAP_SIZE_BYTE, <<s.hash_map.lg_length>>),
             FLAGS_BYTE, <<EMPTY_FLAG_MASK>>)
    ELSE LET active_items == NumActiveItems(s)
             values       == ActiveValues(s.hash_map)
             keys         == ActiveKeys(s.hash_map)
             items_bytes  == SerializeI64Items(keys)
             total_bytes  == PREAMBLE_LONGS_NONEMPTY * 8 + active_items * 8
                             + Len(items_bytes)
             values_bytes == Concat([j \in 1..Len(values) |-> LeBytes(values[j], 8)])
             pre == WriteAt(WriteAt(WriteAt(WriteAt(WriteAt(WriteAt(WriteAt(WriteAt(
                        WriteAt(Zeros(total_bytes),
                        PREAMBLE_LONGS_BYTE, <<PREAMBLE_LONGS_NONEMPTY>>),
                        SER_VER_BYTE, <<SER_VER>>),
                        FAMILY_BYTE, <<FAMILY_ID>>),
                        LG_MAX_MAP_SIZE_BYTE, <<s.lg_max_map_size>>),
                        LG_CUR_MAP_SIZE_BYTE, <<s.hash_map.lg_length>>),
                        FLAGS_BYTE, <<0>>),
                        ACTIVE_ITEMS_INT, LeBytes(active_items, 4)),
                        STREAM_WEIGHT_LONG, LeBytes(s.stream_weight, 8)),
                        OFFSET_LONG, LeBytes(s.offset, 8))
             items_at == PREAMBLE_LONGS_NONEMPTY * 8 + Len(values_bytes)
         IN  WriteAt(WriteAt(pre, PREAMBLE_LONGS_NONEMPTY * 8, values_bytes),
                     items_at, items_bytes)

RECURSIVE FeedLoop(_, _, _, _)
FeedLoop(s, items, values, i) ==
    IF i > Len(items) \/ i > Len(values)
    THEN s
    ELSE FeedLoop(UpdateWithCount(s, items[i], values[i]), items, values, i + 1)

Failed(msg) == [ok |-> FALSE, err |-> msg]

\* deserialize_inner with deserialize_i64_items
Deserialize(bytes) ==
    IF Len(bytes) < 8 THEN Failed("insufficient data: preamble")
    ELSE
    LET pre_longs == BitAnd(bytes[PREAMBLE_LONGS_BYTE + 1], 63)
        ser_ver   == bytes[SER_VER_BYTE + 1]
        family    == bytes[FAMILY_BYTE + 1]
        lg_max    == bytes[LG_MAX_MAP_SIZE_BYTE + 1]
        lg_cur    == bytes[LG_CUR_MAP_SIZE_BYTE + 1]
        flags     == bytes[FLAGS_BYTE + 1]
        is_empty  == BitAnd(flags, EMPTY_FLAG_MASK) # 0
    IN  IF ser_ver # SER_VER THEN Failed("unsupported serial version")
        ELSE IF family # FAMILY_ID THEN Failed("invalid family")
        ELSE IF lg_cur > lg_max THEN Failed("lg_cur_map_size exceeds lg_max_map_size")
        ELSE IF is_empty
        THEN IF pre_longs # PREAMBLE_LONGS_EMPTY
             THEN Failed("invalid preamble longs")
             ELSE [ok |-> TRUE, sketch |-> WithLgMapSizes(lg_max, lg_cur)]
        ELSE IF pre_longs # PREAMBLE_LONGS_NONEMPTY THEN Failed("invalid preamble longs")
        ELSE IF Len(bytes) < PREAMBLE_LONGS_NONEMPTY * 8
        THEN Failed("insufficient data: full preamble")
        ELSE
        LET active_items  == ReadLe(bytes, ACTIVE_ITEMS_INT, 4)
            stream_weight == ReadLe(bytes, STREAM_WEIGHT_LONG, 8)
            offset_val    == ReadLe(bytes, OFFSET_LONG, 8)
            values_offset == PREAMBLE_LONGS_NONEMPTY * 8
            items_offset  == values_offset + active_items * 8
        IN  IF Len(bytes) < items_offset THEN Failed("insufficient data: values")
            ELSE
            LET values == [j \in 1..active_items |->
                              ReadLe(bytes, values_offset + (j - 1) * 8, 8)]
                rest   == SubSeq(bytes, items_offset + 1, Len(bytes))
                parsed == DeserializeI64Items(rest, active_items)
            IN  IF ~parsed.ok THEN parsed
                ELSE IF Len(parsed.items) # active_items
                THEN Failed("item count mismatch during deserialization")
                ELSE IF parsed.consumed > Len(bytes) - items_offset
                THEN Failed("insufficient data: items")
                ELSE LET fed == FeedLoop(WithLgMapSizes(lg_max, lg_cur),
                                         parsed.items, values, 1)
                     IN  [ok     |-> TRUE,
                          sketch |-> [fed EXCEPT !.stream_weight = stream_weight,
                                                 !.offset        = offset_val]]

(***************************************************************************)
(* State                                                                   *)
(***************************************************************************)
VARIABLES
    sk,         \* the sketch under test (a)
    trueCount,  \* item -> sum of the counts of the streams sk has absorbed
    other,      \* a peer sketch (b), merged into sk
    otherTrue,  \* item -> sum of the counts passed to the peer
    lastOp,     \* the last operation applied
    prev,       \* sk before the last merge or reset
    image,      \* the bytes last written by serialize
    decoded,    \* what deserialize returned for image
    thetaTable,    \* the ThetaSketch: its table's theta, entries and seed hash
    compactSketch, \* the CompactThetaSketch taken from it, if any
    wire,          \* the Theta image last written or handed to deserialize
    origin,        \* what produced wire
    craftedImage,  \* the fields wire was assembled from, if it was not serialized
    restored,      \* what deserialize returned for wire
    expectedSeed,  \* the seed deserialize_with_seed was given, 0 before any call
    bitPacker,      \* a BitPacker: its buffer, byte_index and byte_bit_used
    packedValues,   \* the (value, bits) pairs passed to pack_value, in order
    bitUnpacker,    \* a BitUnpacker over the packer's buffer, if any
    unpackedValues, \* the values unpack_value returned, in order
    blockBits,      \* the width given to the block codec
    blockValues,    \* the 8 values given to pack_bits_block
    blockBytes,     \* the buffer pack_bits_block filled, if any
    blockOut,       \* the 8 values unpack_bits_block returned, if any
    array8,         \* the HLL Array8: lg_config_k, bytes, num_zeros, estimator
    array8Coupons,  \* the coupons passed to Array8::update, in order
    array8Image,    \* the bytes last written by Array8::serialize or crafted
    array8Restored, \* what Array8::deserialize returned for array8Image
    countMin,       \* the CountMinSketch: its counters and total_weight
    countMinUpdates \* the (item, weight) pairs passed to it, in order

freqVars == <<sk, trueCount, other, otherTrue, lastOp, prev, image, decoded>>

thetaVars == <<thetaTable, compactSketch, wire, origin, craftedImage, restored,
               expectedSeed>>

packVars == <<bitPacker, packedValues, bitUnpacker, unpackedValues,
              blockBits, blockValues, blockBytes, blockOut>>

hllVars == <<array8, array8Coupons, array8Image, array8Restored>>

countMinVars == <<countMin, countMinUpdates>>

vars == <<sk, trueCount, other, otherTrue, lastOp, prev, image, decoded,
          thetaTable, compactSketch, wire, origin, craftedImage, restored,
          expectedSeed,
          bitPacker, packedValues, bitUnpacker, unpackedValues,
          blockBits, blockValues, blockBytes, blockOut,
          array8, array8Coupons, array8Image, array8Restored,
          countMin, countMinUpdates>>

NoResult == [ok |-> FALSE, err |-> "none"]
ZeroCounts == [i \in Items |-> 0]

\* no Theta sketch has been built
ThetaIdle ==
    /\ thetaTable = <<>>
    /\ compactSketch = <<>>
    /\ wire = <<>>
    /\ origin = "none"
    /\ craftedImage = <<>>
    /\ restored = NoResult
    /\ expectedSeed = 0

\* no packer, unpacker or block is in use
PackIdle ==
    /\ bitPacker = <<>>
    /\ packedValues = <<>>
    /\ bitUnpacker = <<>>
    /\ unpackedValues = <<>>
    /\ blockBits = 0
    /\ blockValues = <<>>
    /\ blockBytes = <<>>
    /\ blockOut = <<>>

\* no HLL array and no Count-Min sketch has been built
SketchesIdle ==
    /\ array8 = <<>>
    /\ array8Coupons = <<>>
    /\ array8Image = <<>>
    /\ array8Restored = NoResult
    /\ countMin = <<>>
    /\ countMinUpdates = <<>>

(***************************************************************************)
(* One sketch driven by updates, serialized and read back                  *)
(***************************************************************************)
InitFreq ==
    /\ sk \in {New(M) : M \in MaxMapSizes}
    /\ trueCount = ZeroCounts
    /\ other = New(8)
    /\ otherTrue = ZeroCounts
    /\ lastOp = "new"
    /\ prev = New(8)
    /\ image = <<>>
    /\ decoded = NoResult
    /\ ThetaIdle
    /\ PackIdle
    /\ SketchesIdle

DoUpdate(item) ==
    /\ sk.stream_weight + 1 <= MaxWeight
    /\ sk' = Update(sk, item)
    /\ trueCount' = [trueCount EXCEPT ![item] = @ + 1]
    /\ lastOp' = "update"
    /\ image' = <<>>
    /\ decoded' = NoResult
    /\ UNCHANGED <<other, otherTrue, prev>>
    /\ UNCHANGED thetaVars
    /\ UNCHANGED packVars
    /\ UNCHANGED <<hllVars, countMinVars>>

DoUpdateWithCount(item, count) ==
    /\ sk.stream_weight + count <= MaxWeight
    /\ sk' = UpdateWithCount(sk, item, count)
    /\ trueCount' = [trueCount EXCEPT ![item] = @ + count]
    /\ lastOp' = "update"
    /\ image' = <<>>
    /\ decoded' = NoResult
    /\ UNCHANGED <<other, otherTrue, prev>>
    /\ UNCHANGED thetaVars
    /\ UNCHANGED packVars
    /\ UNCHANGED <<hllVars, countMinVars>>

\* let bytes = sketch.serialize(); FrequentItemsSketch::deserialize(&bytes)
DoSerialize ==
    /\ lastOp # "serialize"
    /\ image' = Serialize(sk)
    /\ decoded' = Deserialize(image')
    /\ lastOp' = "serialize"
    /\ UNCHANGED <<sk, trueCount, other, otherTrue, prev>>
    /\ UNCHANGED thetaVars
    /\ UNCHANGED packVars
    /\ UNCHANGED <<hllVars, countMinVars>>

NextFreq ==
    \/ \E item \in Items : DoUpdate(item)
    \/ \E item \in Items, count \in 0..MaxCount : DoUpdateWithCount(item, count)
    \/ DoSerialize

SpecFreq == InitFreq /\ [][NextFreq]_vars

(***************************************************************************)
(* Claims about one sketch driven by updates                               *)
(***************************************************************************)
\* C1: after any sequence of update / update_with_count calls, purges and
\* resizes included, every item, tracked or not, has
\* lower_bound(i) <= true_count(i) <= upper_bound(i).
C1_BoundsSandwich ==
    \A i \in Items :
        /\ LowerBound(sk, i) <= trueCount[i]
        /\ trueCount[i] <= UpperBound(sk, i)

\* a purge has happened, one item is tracked below its true count and
\* another was dropped from the map
C1_Witness ==
    /\ lastOp = "update"
    /\ sk.offset > 0
    /\ \E i \in Items : 0 < LowerBound(sk, i) /\ LowerBound(sk, i) < trueCount[i]
    /\ \E i \in Items : LowerBound(sk, i) = 0 /\ trueCount[i] > 0

DistinctInserted == Cardinality({i \in Items : trueCount[i] > 0})

\* C5: while fewer than 0.75 * max_map_size distinct items were inserted, no
\* purge has happened: maximum_error() is 0 and estimate, lower bound and
\* upper bound of every item all equal its true count.
C5_ExactBelowCapacity ==
    (4 * DistinctInserted < 3 * Pow2(sk.lg_max_map_size)) =>
        /\ MaximumError(sk) = 0
        /\ \A i \in Items :
            /\ Estimate(sk, i) = trueCount[i]
            /\ LowerBound(sk, i) = trueCount[i]
            /\ UpperBound(sk, i) = trueCount[i]

\* more distinct items than the initial map holds, fewer than the limit: the
\* map has been resized and nothing was purged
C5_Witness ==
    /\ lastOp = "update"
    /\ DistinctInserted > 6
    /\ 4 * DistinctInserted < 3 * Pow2(sk.lg_max_map_size)
    /\ sk.hash_map.lg_length > LG_MIN_MAP_SIZE

\* C7: deserialize(serialize(s)) succeeds and returns a sketch with the total
\* weight, maximum error, number of active items and estimates of s, for
\* every s reachable by updates, purged ones included.
C7_RoundTrip ==
    (lastOp = "serialize") =>
        /\ decoded.ok
        /\ TotalWeight(decoded.sketch) = TotalWeight(sk)
        /\ MaximumError(decoded.sketch) = MaximumError(sk)
        /\ NumActiveItems(decoded.sketch) = NumActiveItems(sk)
        /\ \A i \in Items : Estimate(decoded.sketch, i) = Estimate(sk, i)

(***************************************************************************)
(* Two sketches, each driven by updates, then a.merge(&b)                  *)
(***************************************************************************)
\* the values of max_map_size of the sketch that receives the merge
MergeMapSizes == {8, 32}
\* the values of max_map_size of the peer
PeerMapSizes == {8}

InitMerge ==
    /\ sk \in {New(M) : M \in MergeMapSizes}
    /\ trueCount = ZeroCounts
    /\ other \in {New(M) : M \in PeerMapSizes}
    /\ otherTrue = ZeroCounts
    /\ lastOp = "new"
    /\ prev = New(8)
    /\ image = <<>>
    /\ decoded = NoResult
    /\ ThetaIdle
    /\ PackIdle
    /\ SketchesIdle

\* The two sketches share nothing before the merge, so the updates of a are
\* taken before those of b.
UpdateA(item, count) ==
    /\ lastOp # "merge"
    /\ otherTrue = ZeroCounts
    /\ sk.stream_weight + count <= MaxWeightA
    /\ sk' = UpdateWithCount(sk, item, count)
    /\ trueCount' = [trueCount EXCEPT ![item] = @ + count]
    /\ lastOp' = "update"
    /\ UNCHANGED <<other, otherTrue, prev, image, decoded>>
    /\ UNCHANGED thetaVars
    /\ UNCHANGED packVars
    /\ UNCHANGED <<hllVars, countMinVars>>

UpdateB(item, count) ==
    /\ lastOp # "merge"
    /\ other.stream_weight + count <= MaxWeight
    /\ other' = UpdateWithCount(other, item, count)
    /\ otherTrue' = [otherTrue EXCEPT ![item] = @ + count]
    /\ lastOp' = "update"
    /\ UNCHANGED <<sk, trueCount, prev, image, decoded>>
    /\ UNCHANGED thetaVars
    /\ UNCHANGED packVars
    /\ UNCHANGED <<hllVars, countMinVars>>

DoMerge ==
    /\ lastOp # "merge"
    /\ sk' = Merge(sk, other)
    /\ trueCount' = [i \in Items |-> trueCount[i] + otherTrue[i]]
    /\ prev' = sk
    /\ lastOp' = "merge"
    /\ UNCHANGED <<other, otherTrue, image, decoded>>
    /\ UNCHANGED thetaVars
    /\ UNCHANGED packVars
    /\ UNCHANGED <<hllVars, countMinVars>>

NextMerge ==
    \/ \E item \in Items, count \in Counts : UpdateA(item, count)
    \/ \E item \in Items, count \in Counts : UpdateB(item, count)
    \/ DoMerge

SpecMerge == InitMerge /\ [][NextMerge]_vars

\* C2: after a.merge(&b), for every item i,
\* a.lower_bound(i) <= count_A(i) + count_B(i) <= a.upper_bound(i), also
\* when a purge emptied the map of b.
C2_MergeBoundsSandwich ==
    (lastOp = "merge") =>
        \A i \in Items :
            /\ LowerBound(sk, i) <= trueCount[i]
            /\ trueCount[i] <= UpperBound(sk, i)

\* C6: after a.merge(&b) the total weight is the sum of the total weights of
\* the inputs, and the maximum error is at least the sum of theirs.
C6_MergeTotals ==
    (lastOp = "merge") =>
        /\ TotalWeight(sk) = TotalWeight(prev) + TotalWeight(other)
        /\ MaximumError(sk) >= MaximumError(prev) + MaximumError(other)

\* the largest of the two map sizes is 2^lg_max_map_size; epsilon is
\* 3.5 / 2^lg_max_map_size, so maximum_error() <= epsilon * total_weight()
\* reads 2 * 2^lg_max_map_size * offset <= 7 * stream_weight
WithinEpsilon(s) ==
    2 * Pow2(s.lg_max_map_size) * MaximumError(s) <= 7 * TotalWeight(s)

BoundsWithinMaximumError(s) ==
    \A i \in Items : UpperBound(s, i) - LowerBound(s, i) <= MaximumError(s)

MergedSmallerPeer ==
    lastOp = "merge" /\ other.lg_max_map_size < prev.lg_max_map_size

Thresholds == 0..MaxThreshold

RowItems(rows) == {rows[j].item : j \in 1..Len(rows)}

\* C4: with T' = max(T, maximum_error()), NoFalsePositives returns only
\* items whose true count is greater than T', NoFalseNegatives returns every
\* item whose true count is greater than T', and frequent_items(e) is
\* frequent_items_with_threshold(e, maximum_error()).
C4_FrequentItems ==
    /\ \A T \in Thresholds :
        LET t == Max(T, MaximumError(sk))
        IN  /\ \A i \in RowItems(FrequentItemsWithThreshold(sk, NoFalsePositives, T)) :
                 trueCount[i] > t
            /\ \A i \in Items :
                 trueCount[i] > t =>
                     i \in RowItems(FrequentItemsWithThreshold(sk, NoFalseNegatives, T))
    /\ \A e \in {NoFalsePositives, NoFalseNegatives} :
        FrequentItems(sk, e) = FrequentItemsWithThreshold(sk, e, MaximumError(sk))

(***************************************************************************)
(* u64 values of the Theta sketch.  A u64 is the sequence of its 64 bits,  *)
(* most significant first.                                                 *)
(***************************************************************************)
U64_BITS == 64

\* the sequence s as the tuple of its elements: the same value, with each
\* element computed once
Tuple(s) == s \o <<>>

ZeroWord == Tuple([i \in 1..U64_BITS |-> 0])

\* n as u64, for 0 <= n < 2^31
Word(n) ==
    Tuple([i \in 1..U64_BITS |->
              IF U64_BITS - i > 30 THEN 0 ELSE (n \div Pow2(U64_BITS - i)) % 2])

\* the number a short sequence of bits denotes
RECURSIVE BitsVal(_)
BitsVal(bits) ==
    IF bits = <<>> THEN 0
    ELSE 2 * BitsVal(SubSeq(bits, 1, Len(bits) - 1)) + bits[Len(bits)]

\* the 8 bits of a byte, most significant first
ByteBits(b) == [i \in 1..8 |-> (b \div Pow2(8 - i)) % 2]

\* the n low bits of w
LowBits(w, n) == SubSeq(w, U64_BITS - n + 1, U64_BITS)

\* the bits of a u64 padded on the left
PadWord(bits) ==
    Tuple([i \in 1..U64_BITS |->
              IF i > U64_BITS - Len(bits) THEN bits[i - (U64_BITS - Len(bits))] ELSE 0])

\* w << k, k < 64
ShiftLeft(w, k) ==
    Tuple([i \in 1..U64_BITS |-> IF i + k <= U64_BITS THEN w[i + k] ELSE 0])

\* the carry into bit i of a + b comes from the nearest lower bit where a and
\* b agree
RECURSIVE CarryInto(_, _, _)
CarryInto(a, b, i) ==
    IF i > U64_BITS THEN 0
    ELSE IF a[i] = b[i] THEN a[i]
    ELSE CarryInto(a, b, i + 1)

\* the borrow into bit i of a - b comes from the nearest lower bit where a
\* and b differ
RECURSIVE BorrowInto(_, _, _)
BorrowInto(a, b, i) ==
    IF i > U64_BITS THEN 0
    ELSE IF a[i] # b[i] THEN (IF a[i] < b[i] THEN 1 ELSE 0)
    ELSE BorrowInto(a, b, i + 1)

\* a < b
LtWord(a, b) == BorrowInto(a, b, 1) = 1

\* a + b: the wrapped sum and the carry out of bit 63
AddWord(a, b) ==
    [word  |-> Tuple([i \in 1..U64_BITS |-> (a[i] + b[i] + CarryInto(a, b, i + 1)) % 2]),
     carry |-> CarryInto(a, b, 1)]

\* a - b: the wrapped difference and the borrow
SubWord(a, b) ==
    [word   |-> Tuple([i \in 1..U64_BITS |->
                          (a[i] - b[i] - BorrowInto(a, b, i + 1) + 2) % 2]),
     borrow |-> BorrowInto(a, b, 1)]

\* u64::leading_zeros
RECURSIVE LeadingZerosLoop(_, _)
LeadingZerosLoop(w, i) ==
    IF i > U64_BITS THEN U64_BITS
    ELSE IF w[i] = 1 THEN i - 1
    ELSE LeadingZerosLoop(w, i + 1)

LeadingZeros(w) == LeadingZerosLoop(w, 1)

\* (w >> k) as u8, k < 64
ShrU8(w, k) ==
    BitsVal([i \in 1..8 |->
                LET idx == U64_BITS - k - 8 + i
                IN  IF idx >= 1 THEN w[idx] ELSE 0])

\* (w << k) as u8, k < 8
ShlU8(w, k) == (BitsVal(LowBits(w, 8)) * Pow2(k)) % 256

\* write_u64_le / read_u64_le
WriteU64Le(w) ==
    Tuple([j \in 1..8 |-> BitsVal(SubSeq(w, U64_BITS - 8 * j + 1, U64_BITS - 8 * j + 8))])

ReadU64Le(bytes, offset) ==
    Tuple([i \in 1..U64_BITS |->
              ByteBits(bytes[offset + 8 - ((i - 1) \div 8)])[((i - 1) % 8) + 1]])

\* write_u64_le of each entry in turn
WriteEntries(entries) ==
    Tuple([k \in 1..8 * Len(entries) |->
              WriteU64Le(entries[((k - 1) \div 8) + 1])[((k - 1) % 8) + 1]])

\* write_u16_be / write_u32_be
RECURSIVE BeBytes(_, _)
BeBytes(value, n) ==
    IF n = 0 THEN <<>> ELSE BeBytes(value \div 256, n - 1) \o <<value % 256>>

(***************************************************************************)
(* theta/bit_pack.rs                                                       *)
(***************************************************************************)
BLOCK_WIDTH == 8

low_bit_to_byte_mask(bits) == IF bits >= 8 THEN 255 ELSE Pow2(bits) - 1

\* BitPacker::new
BitPackerNew(bytes) ==
    [bytes |-> bytes, byte_index |-> 0, byte_bit_used |-> 0, panicked |-> FALSE]

\* self.bytes[self.byte_index] = f(self.bytes[self.byte_index]); an index
\* past the end of the buffer panics
PackerStore(p, byte, or_into) ==
    IF p.panicked \/ p.byte_index >= Len(p.bytes)
    THEN [p EXCEPT !.panicked = TRUE]
    ELSE [p EXCEPT !.bytes[p.byte_index + 1] = IF or_into THEN BitOr(@, byte) ELSE byte]

\* variant: a byte that is written in part is not counted
ByteUsed_WholeBytes(p) == p.byte_index

\* BitPacker::byte_used
ByteUsed(p) == IF p.byte_bit_used = 0 THEN p.byte_index ELSE p.byte_index + 1

\* while bits >= 8 { bytes[byte_index] = (value >> (bits - 8)) as u8; ... }
RECURSIVE PackWholeBytes(_, _, _)
PackWholeBytes(p, value, bits) ==
    IF bits < 8 THEN p
    ELSE PackWholeBytes(
             [PackerStore(p, ShrU8(value, bits - 8), FALSE) EXCEPT !.byte_index = @ + 1],
             value, bits - 8)

\* variant: the fast path ors the shifted value into the byte unmasked
PackValue_FastPathUnmasked(p, value, bits) ==
    LET remain_bits == 8 - p.byte_bit_used
        remain_mask == low_bit_to_byte_mask(remain_bits)
    IN  IF p.byte_bit_used > 0 /\ bits < remain_bits
        THEN [PackerStore(p, ShlU8(value, remain_bits - bits), TRUE)
                 EXCEPT !.byte_bit_used = @ + bits]
        ELSE LET head == IF p.byte_bit_used > 0
                         THEN [PackerStore(p, BitAnd(ShrU8(value, bits - remain_bits),
                                                     remain_mask), TRUE)
                                  EXCEPT !.byte_bit_used = 0, !.byte_index = @ + 1]
                         ELSE p
                 rest == IF p.byte_bit_used > 0 THEN bits - remain_bits ELSE bits
                 body == PackWholeBytes(head, value, rest)
                 left == rest % 8
             IN  IF left > 0
                 THEN [PackerStore(body, ShlU8(value, 8 - left), FALSE)
                          EXCEPT !.byte_bit_used = left]
                 ELSE body

\* variant: the fast path assigns the byte where pack_value ors into it
PackValue_FastPathAssign(p, value, bits) ==
    LET remain_bits == 8 - p.byte_bit_used
        remain_mask == low_bit_to_byte_mask(remain_bits)
    IN  IF p.byte_bit_used > 0 /\ bits < remain_bits
        THEN [PackerStore(p, BitAnd(ShlU8(value, remain_bits - bits), remain_mask), FALSE)
                 EXCEPT !.byte_bit_used = @ + bits]
        ELSE LET head == IF p.byte_bit_used > 0
                         THEN [PackerStore(p, BitAnd(ShrU8(value, bits - remain_bits),
                                                     remain_mask), TRUE)
                                  EXCEPT !.byte_bit_used = 0, !.byte_index = @ + 1]
                         ELSE p
                 rest == IF p.byte_bit_used > 0 THEN bits - remain_bits ELSE bits
                 body == PackWholeBytes(head, value, rest)
                 left == rest % 8
             IN  IF left > 0
                 THEN [PackerStore(body, ShlU8(value, 8 - left), FALSE)
                          EXCEPT !.byte_bit_used = left]
                 ELSE body

\* BitPacker::pack_value, bits <= 64
PackValue(p, value, bits) ==
    LET remain_bits == 8 - p.byte_bit_used
        remain_mask == low_bit_to_byte_mask(remain_bits)
    IN  IF p.byte_bit_used > 0 /\ bits < remain_bits
        THEN [PackerStore(p, BitAnd(ShlU8(value, remain_bits - bits), remain_mask), TRUE)
                 EXCEPT !.byte_bit_used = @ + bits]
        ELSE LET head == IF p.byte_bit_used > 0
                         THEN [PackerStore(p, BitAnd(ShrU8(value, bits - remain_bits),
                                                     remain_mask), TRUE)
                                  EXCEPT !.byte_bit_used = 0, !.byte_index = @ + 1]
                         ELSE p
                 rest == IF p.byte_bit_used > 0 THEN bits - remain_bits ELSE bits
                 body == PackWholeBytes(head, value, rest)
                 left == rest % 8
             IN  IF left > 0
                 THEN [PackerStore(body, ShlU8(value, 8 - left), FALSE)
                          EXCEPT !.byte_bit_used = left]
                 ELSE body

\* BitUnpacker::new
BitUnpackerNew(bytes) ==
    [bytes |-> bytes, byte_index |-> 0, byte_bit_used |-> 0, panicked |-> FALSE]

\* self.bytes[self.byte_index]; an index past the end of the buffer panics
UnpackerByte(u) == IF u.byte_index < Len(u.bytes) THEN u.bytes[u.byte_index + 1] ELSE 0

UnpackerPeek(u) == [u EXCEPT !.panicked = @ \/ u.byte_index >= Len(u.bytes)]

\* while bits >= 8 { value = (value << 8) | bytes[byte_index] as u64; ... }
RECURSIVE UnpackWholeBytes(_, _, _)
UnpackWholeBytes(u, value, bits) ==
    IF bits < 8 THEN [unpacker |-> u, value |-> value]
    ELSE UnpackWholeBytes(
             [UnpackerPeek(u) EXCEPT !.byte_index = @ + 1],
             SubSeq(value, 9, U64_BITS) \o ByteBits(UnpackerByte(u)),
             bits - 8)

\* BitUnpacker::unpack_value: the value and the unpacker after the call
UnpackValue(u, bits) ==
    IF bits = 0
    THEN [unpacker |-> u, value |-> ZeroWord]
    ELSE LET avail_bits == 8 - u.byte_bit_used
             chunk_bits == Min(avail_bits, bits)
             chunk_mask == low_bit_to_byte_mask(chunk_bits)
             first == BitAnd(UnpackerByte(u) \div Pow2(avail_bits - chunk_bits), chunk_mask)
             head  == [UnpackerPeek(u) EXCEPT
                          !.byte_index    = IF chunk_bits = avail_bits THEN @ + 1 ELSE @,
                          !.byte_bit_used = (@ + chunk_bits) % 8]
             body  == UnpackWholeBytes(head, PadWord(ByteBits(first)), bits - chunk_bits)
             left  == (bits - chunk_bits) % 8
         IN  IF left > 0
             THEN [unpacker |-> [UnpackerPeek(body.unpacker) EXCEPT !.byte_bit_used = left],
                   value    |-> SubSeq(body.value, left + 1, U64_BITS)
                                \o SubSeq(ByteBits(UnpackerByte(body.unpacker)), 1, left)]
             ELSE body

\* variant: the 8 values are laid out last to first
PackBits_Reversed(values, bytes, bits) ==
    LET stream == Concat([j \in 1..BLOCK_WIDTH |-> LowBits(values[BLOCK_WIDTH + 1 - j], bits)])
    IN  Tuple([k \in 1..Len(bytes) |->
                  IF k <= bits THEN BitsVal(SubSeq(stream, 8 * (k - 1) + 1, 8 * k))
                  ELSE bytes[k]])

\* pack_bits_1 .. pack_bits_63: the bits low bits of each of the 8 values,
\* most significant first, one value after the other, fill bytes[0..bits]
PackBits(values, bytes, bits) ==
    LET stream == Concat([j \in 1..BLOCK_WIDTH |-> LowBits(values[j], bits)])
    IN  Tuple([k \in 1..Len(bytes) |->
                  IF k <= bits THEN BitsVal(SubSeq(stream, 8 * (k - 1) + 1, 8 * k))
                  ELSE bytes[k]])

\* pack_bits_block: the buffer after the call, or a panic
PackBitsBlock(values, bytes, bits) ==
    IF \/ Len(values) # BLOCK_WIDTH
       \/ bits \notin 1..63
       \/ ~(Len(bytes) < bits * BLOCK_WIDTH)
       \/ Len(bytes) < bits
    THEN [panicked |-> TRUE, bytes |-> bytes]
    ELSE [panicked |-> FALSE, bytes |-> PackBits(values, bytes, bits)]

\* variant: the 8 fields are handed out last to first
UnpackBits_Reversed(bytes, bits) ==
    LET stream == Concat([k \in 1..bits |-> ByteBits(bytes[k])])
    IN  Tuple([j \in 1..BLOCK_WIDTH |->
                  PadWord(SubSeq(stream, bits * (BLOCK_WIDTH - j) + 1,
                                 bits * (BLOCK_WIDTH - j + 1)))])

\* unpack_bits_1 .. unpack_bits_63
UnpackBits(bytes, bits) ==
    LET stream == Concat([k \in 1..bits |-> ByteBits(bytes[k])])
    IN  Tuple([j \in 1..BLOCK_WIDTH |->
                  PadWord(SubSeq(stream, bits * (j - 1) + 1, bits * j))])

\* unpack_bits_block: the 8 values, or a panic
UnpackBitsBlock(bytes, bits) ==
    IF \/ bits \notin 1..63
       \/ ~(Len(bytes) < bits * BLOCK_WIDTH)
       \/ Len(bytes) < bits
    THEN [panicked |-> TRUE, values |-> <<>>]
    ELSE [panicked |-> FALSE, values |-> UnpackBits(bytes, bits)]

(***************************************************************************)
(* Theta: theta/hash_table.rs, theta/serialization.rs, codec/family.rs     *)
(* and hash.rs                                                             *)
(***************************************************************************)
\* i64::MAX as u64
MAX_THETA == Tuple([i \in 1..U64_BITS |-> IF i = 1 THEN 0 ELSE 1])

THETA_FAMILY_ID == 3
THETA_MIN_PRE_LONGS == 1
THETA_MAX_PRE_LONGS == 3
UNCOMPRESSED_SERIAL_VERSION == 3
COMPRESSED_SERIAL_VERSION == 4
FLAGS_IS_READ_ONLY == 2
FLAGS_IS_EMPTY == 4
FLAGS_IS_COMPACT == 8
FLAGS_IS_ORDERED == 16
V2_PREAMBLE_EMPTY == 1
V2_PREAMBLE_PRECISE == 2
V2_PREAMBLE_ESTIMATE == 3
DEFAULT_UPDATE_SEED == 9001

\* compute_seed_hash: a 16-bit digest of the seed
ComputeSeedHash(seed) == (seed * 40503 + 77) % 65536

(***************************************************************************)
(* ThetaSketch::compact and CompactThetaSketch                             *)
(***************************************************************************)
\* entries.sort_unstable(): each entry goes to the place after the entries
\* below it; equal entries keep their order
SortUnstable(entries) ==
    LET n     == Len(entries)
        place == Tuple([i \in 1..n |->
                     1 + Cardinality({m \in 1..n :
                             \/ LtWord(entries[m], entries[i])
                             \/ entries[m] = entries[i] /\ m < i})])
    IN  Tuple([r \in 1..n |-> entries[CHOOSE i \in 1..n : place[i] = r]])

\* ThetaSketch::compact; table.entries is the order of self.iter()
Compact(table, ordered) ==
    LET entries   == table.entries
        empty     == entries = <<>>
        theta     == IF empty THEN MAX_THETA ELSE table.theta
        is_single == Len(entries) = 1 /\ theta = MAX_THETA
        ord       == ordered \/ empty \/ is_single
    IN  [entries   |-> IF ord /\ Len(entries) > 1 THEN SortUnstable(entries) ELSE entries,
         theta     |-> theta,
         seed_hash |-> table.seed_hash,
         ordered   |-> ord,
         empty     |-> empty]

IsEstimationMode(s) == LtWord(s.theta, MAX_THETA)

PreambleLongs(s, compressed) ==
    IF compressed
    THEN (IF IsEstimationMode(s) THEN 2 ELSE 1)
    ELSE IF IsEstimationMode(s) THEN 3
    ELSE IF s.empty \/ Len(s.entries) = 1 THEN 1
    ELSE 2

IsSuitableForCompression(s) ==
    /\ s.ordered
    /\ s.entries # <<>>
    /\ (Len(s.entries) # 1 \/ IsEstimationMode(s))

\* variant: the ordered flag is never written
CompactSerialize_NoOrderedFlag(s) ==
    LET pre_longs == PreambleLongs(s, FALSE)
        flags     == BitOr(BitOr(FLAGS_IS_READ_ONLY, FLAGS_IS_COMPACT),
                           IF s.empty THEN FLAGS_IS_EMPTY ELSE 0)
    IN  <<pre_longs, UNCOMPRESSED_SERIAL_VERSION, THETA_FAMILY_ID>>
        \o BeBytes(0, 2) \o <<flags>> \o LeBytes(s.seed_hash, 2)
        \o (IF pre_longs > 1 THEN LeBytes(Len(s.entries), 4) \o BeBytes(0, 4) ELSE <<>>)
        \o (IF IsEstimationMode(s) THEN WriteU64Le(s.theta) ELSE <<>>)
        \o WriteEntries(s.entries)

\* CompactThetaSketch::serialize
CompactSerialize(s) ==
    LET pre_longs == PreambleLongs(s, FALSE)
        flags     == BitOr(BitOr(BitOr(FLAGS_IS_READ_ONLY, FLAGS_IS_COMPACT),
                                 IF s.empty THEN FLAGS_IS_EMPTY ELSE 0),
                           IF s.ordered THEN FLAGS_IS_ORDERED ELSE 0)
    IN  <<pre_longs, UNCOMPRESSED_SERIAL_VERSION, THETA_FAMILY_ID>>
        \o BeBytes(0, 2) \o <<flags>> \o LeBytes(s.seed_hash, 2)
        \o (IF pre_longs > 1 THEN LeBytes(Len(s.entries), 4) \o BeBytes(0, 4) ELSE <<>>)
        \o (IF IsEstimationMode(s) THEN WriteU64Le(s.theta) ELSE <<>>)
        \o WriteEntries(s.entries)

\* delta = entry - previous, for each entry in turn, with the borrow of the
\* subtraction
Deltas(entries) ==
    Tuple([i \in 1..Len(entries) |->
              SubWord(entries[i], IF i = 1 THEN ZeroWord ELSE entries[i - 1])])

\* compute_entry_bits: 64 - ored.leading_zeros()
ComputeEntryBits(entries) ==
    LET deltas == Deltas(entries)
        ored   == [i \in 1..U64_BITS |->
                      IF \E k \in 1..Len(entries) : deltas[k].word[i] = 1 THEN 1 ELSE 0]
    IN  U64_BITS - LeadingZeros(ored)

\* u32::BITS - n.leading_zeros()
RECURSIVE BitLength(_)
BitLength(n) == IF n = 0 THEN 0 ELSE 1 + BitLength(n \div 2)

\* variant: the entry count is always written in one byte
NumEntriesBytes_OneByte(num_entries) == 1

NumEntriesBytes(num_entries) == (BitLength(num_entries) + 7) \div 8

\* the tail loop of serialize_v4: packer.pack_value(delta, entry_bits)
RECURSIVE PackTail(_, _, _, _)
PackTail(packer, deltas, i, entry_bits) ==
    IF i > Len(deltas) THEN packer
    ELSE PackTail(PackValue(packer, deltas[i].word, entry_bits), deltas, i + 1, entry_bits)

\* CompactThetaSketch::serialize_v4: the bytes, or a panic.  overflow_checks
\* is the build's setting: an arithmetic overflow panics with it and wraps
\* without it.
SerializeV4(s, overflow_checks) ==
    LET pre_longs   == PreambleLongs(s, TRUE)
        entry_bits  == ComputeEntryBits(s.entries)
        n           == Len(s.entries)
        nbytes      == NumEntriesBytes(n)
        deltas      == Deltas(s.entries)
        underflow   == \E k \in 1..n : deltas[k].borrow = 1
        flags       == BitOr(BitOr(FLAGS_IS_READ_ONLY, FLAGS_IS_COMPACT), FLAGS_IS_ORDERED)
        full        == n \div BLOCK_WIDTH
        blocks      == Tuple([b \in 1..full |->
                          PackBitsBlock(
                              [j \in 1..BLOCK_WIDTH |-> deltas[BLOCK_WIDTH * (b - 1) + j].word],
                              Zeros(entry_bits), entry_bits)])
        tail        == PackTail(BitPackerNew(Zeros(entry_bits)), deltas,
                                BLOCK_WIDTH * full + 1, entry_bits)
    IN  IF \/ overflow_checks /\ underflow
           \/ \E b \in 1..full : blocks[b].panicked
           \/ tail.panicked
        THEN [panicked |-> TRUE, bytes |-> <<>>]
        ELSE [panicked |-> FALSE,
              bytes |->
                  <<pre_longs, COMPRESSED_SERIAL_VERSION, THETA_FAMILY_ID,
                    entry_bits, nbytes, flags>>
                  \o LeBytes(s.seed_hash, 2)
                  \o (IF IsEstimationMode(s) THEN WriteU64Le(s.theta) ELSE <<>>)
                  \o LeBytes(n, nbytes)
                  \o [k \in 1..entry_bits * full |->
                         blocks[((k - 1) \div entry_bits) + 1].bytes[((k - 1) % entry_bits) + 1]]
                  \o SubSeq(tail.bytes, 1, ByteUsed(tail))]

\* CompactThetaSketch::serialize_compressed
SerializeCompressed(s, overflow_checks) ==
    IF IsSuitableForCompression(s)
    THEN SerializeV4(s, overflow_checks)
    ELSE [panicked |-> FALSE, bytes |-> CompactSerialize(s)]

(***************************************************************************)
(* CompactThetaSketch::deserialize_with_seed                               *)
(***************************************************************************)
Ok(sketch) == [ok |-> TRUE, sketch |-> sketch]

\* the thread panicked: neither Ok nor Err is returned
Panicked == [ok |-> FALSE, err |-> "panic"]

InsufficientData == Failed("insufficient data")
InvalidRetainedHash == Failed("corrupted: invalid retained hash value")
IncompatibleSeedHash == Failed("incompatible seed hash")

\* variant: the entries that are there are returned when the bytes run out
ReadEntries_ShortRead(bytes, offset, num_entries, theta) ==
    LET whole   == IF Len(bytes) > offset THEN (Len(bytes) - offset) \div 8 ELSE 0
        m       == Min(num_entries, whole)
        entries == Tuple([i \in 1..m |-> ReadU64Le(bytes, offset + 8 * (i - 1))])
    IN  IF \E i \in 1..m : entries[i] = ZeroWord \/ ~LtWord(entries[i], theta)
        THEN InvalidRetainedHash
        ELSE [ok |-> TRUE, entries |-> entries]

\* read_entries, from the byte at offset: the entries are read in turn, so an
\* invalid one is met before the end of the bytes is
ReadEntries(bytes, offset, num_entries, theta) ==
    LET whole   == IF Len(bytes) > offset THEN (Len(bytes) - offset) \div 8 ELSE 0
        m       == Min(num_entries, whole)
        entries == Tuple([i \in 1..m |-> ReadU64Le(bytes, offset + 8 * (i - 1))])
    IN  IF \E i \in 1..m : entries[i] = ZeroWord \/ ~LtWord(entries[i], theta)
        THEN InvalidRetainedHash
        ELSE IF m < num_entries THEN InsufficientData
        ELSE [ok |-> TRUE, entries |-> entries]

\* the sketch built from the entries read, or the error of read_entries
WithEntries(read, theta, seed_hash, ordered, empty) ==
    IF read.ok
    THEN Ok([entries |-> read.entries, theta |-> theta, seed_hash |-> seed_hash,
             ordered |-> ordered, empty |-> empty])
    ELSE read

DeserializeV1(bytes, expected_seed) ==
    IF Len(bytes) < 24 THEN InsufficientData
    ELSE LET seed_hash   == ComputeSeedHash(expected_seed)
             num_entries == ReadLe(bytes, 8, 4)
             theta       == ReadU64Le(bytes, 16)
             empty       == num_entries = 0 /\ theta = MAX_THETA
         IN  IF empty
             THEN Ok([entries |-> <<>>, theta |-> theta, seed_hash |-> seed_hash,
                      ordered |-> TRUE, empty |-> TRUE])
             ELSE WithEntries(ReadEntries(bytes, 24, num_entries, theta),
                              theta, seed_hash, TRUE, FALSE)

DeserializeV2(pre_longs, bytes, expected_seed) ==
    IF Len(bytes) < 8 THEN InsufficientData
    ELSE LET seed_hash == ReadLe(bytes, 6, 2)
         IN  IF seed_hash # ComputeSeedHash(expected_seed) THEN IncompatibleSeedHash
             ELSE IF pre_longs = V2_PREAMBLE_EMPTY
             THEN Ok([entries |-> <<>>, theta |-> MAX_THETA, seed_hash |-> seed_hash,
                      ordered |-> TRUE, empty |-> TRUE])
             ELSE IF pre_longs = V2_PREAMBLE_PRECISE
             THEN IF Len(bytes) < 16 THEN InsufficientData
                  ELSE WithEntries(ReadEntries(bytes, 16, ReadLe(bytes, 8, 4), MAX_THETA),
                                   MAX_THETA, seed_hash, TRUE, TRUE)
             ELSE IF pre_longs = V2_PREAMBLE_ESTIMATE
             THEN IF Len(bytes) < 24 THEN InsufficientData
                  ELSE LET num_entries == ReadLe(bytes, 8, 4)
                           theta       == ReadU64Le(bytes, 16)
                       IN  WithEntries(ReadEntries(bytes, 24, num_entries, theta),
                                       theta, seed_hash, TRUE,
                                       num_entries = 0 /\ theta = MAX_THETA)
             ELSE Failed("invalid preamble longs")

\* variant: the seed hash of the image is not compared
DeserializeV3_AnySeed(pre_longs, bytes, expected_seed) ==
    IF Len(bytes) < 8 THEN InsufficientData
    ELSE LET flags     == bytes[6]
             seed_hash == ReadLe(bytes, 6, 2)
             empty     == BitAnd(flags, FLAGS_IS_EMPTY) # 0
             ordered   == BitAnd(flags, FLAGS_IS_ORDERED) # 0
         IN  IF empty
             THEN Ok([entries |-> <<>>, theta |-> MAX_THETA, seed_hash |-> seed_hash,
                      ordered |-> ordered, empty |-> TRUE])
             ELSE IF pre_longs = 1
             THEN WithEntries(ReadEntries(bytes, 8, 1, MAX_THETA),
                              MAX_THETA, seed_hash, ordered, FALSE)
             ELSE IF Len(bytes) < 16 THEN InsufficientData
             ELSE IF pre_longs > 2
             THEN IF Len(bytes) < 24 THEN InsufficientData
                  ELSE WithEntries(ReadEntries(bytes, 24, ReadLe(bytes, 8, 4),
                                               ReadU64Le(bytes, 16)),
                                   ReadU64Le(bytes, 16), seed_hash, ordered, FALSE)
             ELSE WithEntries(ReadEntries(bytes, 16, ReadLe(bytes, 8, 4), MAX_THETA),
                              MAX_THETA, seed_hash, ordered, FALSE)

DeserializeV3(pre_longs, bytes, expected_seed) ==
    IF Len(bytes) < 8 THEN InsufficientData
    ELSE LET flags     == bytes[6]
             seed_hash == ReadLe(bytes, 6, 2)
             empty     == BitAnd(flags, FLAGS_IS_EMPTY) # 0
             ordered   == BitAnd(flags, FLAGS_IS_ORDERED) # 0
         IN  IF empty
             THEN Ok([entries |-> <<>>, theta |-> MAX_THETA, seed_hash |-> seed_hash,
                      ordered |-> ordered, empty |-> TRUE])
             ELSE IF seed_hash # ComputeSeedHash(expected_seed) THEN IncompatibleSeedHash
             ELSE IF pre_longs = 1
             THEN WithEntries(ReadEntries(bytes, 8, 1, MAX_THETA),
                              MAX_THETA, seed_hash, ordered, FALSE)
             ELSE IF Len(bytes) < 16 THEN InsufficientData
             ELSE IF pre_longs > 2
             THEN IF Len(bytes) < 24 THEN InsufficientData
                  ELSE WithEntries(ReadEntries(bytes, 24, ReadLe(bytes, 8, 4),
                                               ReadU64Le(bytes, 16)),
                                   ReadU64Le(bytes, 16), seed_hash, ordered, FALSE)
             ELSE WithEntries(ReadEntries(bytes, 16, ReadLe(bytes, 8, 4), MAX_THETA),
                              MAX_THETA, seed_hash, ordered, FALSE)

\* vec![0u64; num_entries] with a count no image of the model can back: the
\* allocation panics on capacity overflow, aborts, or succeeds and the read of
\* the deltas then fails, as the platform has it
AllocationOutcome == [ok |-> FALSE, err |-> "allocation"]

\* num_entries |= (entry_count_byte as usize) << ((i as usize) << 3), for each
\* count byte; a shift of 64 or more overflows
RECURSIVE ReadNumEntries(_, _, _, _, _, _)
ReadNumEntries(bytes, offset, i, num_entries_bytes, acc, overflow_checks) ==
    IF i = num_entries_bytes THEN [ok |-> TRUE, num_entries |-> acc]
    ELSE IF Len(bytes) < offset + i + 1 THEN InsufficientData
    ELSE IF 8 * i >= U64_BITS /\ overflow_checks THEN Panicked
    ELSE LET byte  == bytes[offset + i + 1]
             shift == (8 * i) % U64_BITS
             next  == IF byte = 0 THEN acc
                      ELSE IF shift >= 24 \/ acc < 0 THEN -1
                      ELSE BitOr(acc, byte * Pow2(shift))
         IN  ReadNumEntries(bytes, offset, i + 1, num_entries_bytes, next,
                            overflow_checks)

\* the tail loop of deserialize_v4: unpacker.unpack_value(entry_bits)
RECURSIVE UnpackTail(_, _, _, _)
UnpackTail(unpacker, remaining, entry_bits, acc) ==
    IF remaining = 0 THEN [panicked |-> unpacker.panicked, values |-> acc]
    ELSE LET r == UnpackValue(unpacker, entry_bits)
         IN  UnpackTail(r.unpacker, remaining - 1, entry_bits, Append(acc, r.value))

\* undo deltas: *e += previous, then the check of the entry against theta;
\* previous is the entry before, acc the entries so far
RECURSIVE UndoDeltas(_, _, _, _, _)
UndoDeltas(deltas, i, theta, acc, overflow_checks) ==
    IF i > Len(deltas) THEN [ok |-> TRUE, entries |-> acc]
    ELSE LET previous == IF acc = <<>> THEN ZeroWord ELSE acc[Len(acc)]
             sum      == AddWord(deltas[i], previous)
         IN  IF sum.carry = 1 /\ overflow_checks THEN Panicked
             ELSE IF sum.word = ZeroWord \/ ~LtWord(sum.word, theta)
             THEN InvalidRetainedHash
             ELSE UndoDeltas(deltas, i + 1, theta, Append(acc, sum.word), overflow_checks)

DeserializeV4(pre_longs, bytes, expected_seed, overflow_checks) ==
    IF Len(bytes) < 8 THEN InsufficientData
    ELSE LET entry_bits        == bytes[4]
             num_entries_bytes == bytes[5]
             flags             == bytes[6]
             seed_hash         == ReadLe(bytes, 6, 2)
             empty             == BitAnd(flags, FLAGS_IS_EMPTY) # 0
             ordered           == BitAnd(flags, FLAGS_IS_ORDERED) # 0
             body              == IF pre_longs > 1 THEN 16 ELSE 8
         IN  IF ~empty /\ seed_hash # ComputeSeedHash(expected_seed)
             THEN IncompatibleSeedHash
             ELSE IF Len(bytes) < body THEN InsufficientData
             ELSE
             LET theta == IF pre_longs > 1 THEN ReadU64Le(bytes, 8) ELSE MAX_THETA
                 count == ReadNumEntries(bytes, body, 0, num_entries_bytes, 0,
                                         overflow_checks)
             IN  IF ~count.ok THEN count
                 ELSE IF count.num_entries < 0 THEN AllocationOutcome
                 ELSE
                 LET num_entries == count.num_entries
                     packed      == body + num_entries_bytes
                     full        == num_entries \div BLOCK_WIDTH
                     rem         == num_entries - BLOCK_WIDTH * full
                     tail_at     == packed + full * entry_bits
                     tail_len    == (rem * entry_bits + 7) \div 8
                     blocks      == Tuple([b \in 1..full |->
                                        UnpackBitsBlock(
                                            SubSeq(bytes, packed + (b - 1) * entry_bits + 1,
                                                   packed + b * entry_bits),
                                            entry_bits)])
                 IN  IF full > 0 /\ Len(bytes) < packed + entry_bits THEN InsufficientData
                     ELSE IF full > 0 /\ UnpackBitsBlock(SubSeq(bytes, packed + 1,
                                                                packed + entry_bits),
                                                         entry_bits).panicked
                     THEN Panicked
                     ELSE IF Len(bytes) < tail_at THEN InsufficientData
                     ELSE IF rem > 0 /\ Len(bytes) < tail_at + tail_len THEN InsufficientData
                     ELSE
                     LET tail == UnpackTail(
                                     BitUnpackerNew(SubSeq(bytes, tail_at + 1,
                                                           tail_at + tail_len)),
                                     rem, entry_bits, <<>>)
                         deltas == [k \in 1..BLOCK_WIDTH * full |->
                                       blocks[((k - 1) \div BLOCK_WIDTH) + 1].values[
                                           ((k - 1) % BLOCK_WIDTH) + 1]]
                                   \o tail.values
                     IN  IF tail.panicked THEN Panicked
                         ELSE WithEntries(
                                  UndoDeltas(deltas, 1, theta, <<>>,
                                             overflow_checks),
                                  theta, seed_hash, ordered, empty)

DeserializeWithSeed(bytes, seed, overflow_checks) ==
    IF Len(bytes) < 3 THEN InsufficientData
    ELSE LET pre_longs == bytes[1]
             ser_ver   == bytes[2]
             family_id == bytes[3]
         IN  IF family_id # THETA_FAMILY_ID THEN Failed("invalid family")
             ELSE IF pre_longs \notin THETA_MIN_PRE_LONGS..THETA_MAX_PRE_LONGS
             THEN Failed("invalid preamble longs")
             ELSE IF ser_ver = 1 THEN DeserializeV1(bytes, seed)
             ELSE IF ser_ver = 2 THEN DeserializeV2(pre_longs, bytes, seed)
             ELSE IF ser_ver = 3 THEN DeserializeV3(pre_longs, bytes, seed)
             ELSE IF ser_ver = 4 THEN DeserializeV4(pre_longs, bytes, seed, overflow_checks)
             ELSE Failed("unsupported serial version")

(***************************************************************************)
(* Theta sketches: compact, serialize, serialize_compressed, deserialize   *)
(***************************************************************************)
MaxEntries == 257

TableSizes == {0, 1, 2, 7, 8, 9, 19, MaxEntries}
HashKinds == 1..4
Seeds == {DEFAULT_UPDATE_SEED, DEFAULT_UPDATE_SEED + 1}

\* the i-th smallest hash a table retains: 63-bit values with uneven gaps,
\* low, middle and high in the hash range
RetainedHash(kind, i) ==
    IF kind = 1 THEN Word(i * i + 1)
    ELSE IF kind = 2 THEN ShiftLeft(Word(i * i + 1), 20)
    ELSE IF kind = 3 THEN ShiftLeft(Word(i * i + 1), 45)
    ELSE AddWord(ShiftLeft(Word(1), 62), Word(i * i)).word

\* the states of a ThetaSketch's table: nonzero distinct hashes below theta, in
\* the order its iterator yields them; theta below MAX_THETA after sampling or
\* a rebuild.  The largest table is taken with one kind of hash, in descending
\* order and with the default seed.
ThetaTableOf(n, kind, sampled, ascending, seed) ==
    [theta     |-> IF sampled
                   THEN (IF n = 0 THEN ShiftLeft(Word(1), 40)
                         ELSE AddWord(RetainedHash(kind, n), Word(1)).word)
                   ELSE MAX_THETA,
     entries   |-> Tuple([i \in 1..n |->
                             RetainedHash(kind, IF ascending THEN i ELSE n + 1 - i)]),
     seed_hash |-> ComputeSeedHash(seed)]

ThetaTables ==
    { ThetaTableOf(t[1], t[2], t[3], t[4], t[5]) :
        t \in { u \in TableSizes \X HashKinds \X BOOLEAN \X BOOLEAN \X Seeds :
                  u[1] < MaxEntries \/ (u[2] = 2 /\ ~u[4] /\ u[5] = DEFAULT_UPDATE_SEED) } }

\* ThetaSketch::builder().build(), never updated
NewThetaTable ==
    [theta |-> MAX_THETA, entries |-> <<>>, seed_hash |-> ComputeSeedHash(DEFAULT_UPDATE_SEED)]

InitTheta ==
    /\ sk = New(8)
    /\ trueCount = ZeroCounts
    /\ other = New(8)
    /\ otherTrue = ZeroCounts
    /\ lastOp = "new"
    /\ prev = New(8)
    /\ image = <<>>
    /\ decoded = NoResult
    /\ thetaTable \in ThetaTables
    /\ compactSketch = <<>>
    /\ wire = <<>>
    /\ origin = "none"
    /\ craftedImage = <<>>
    /\ restored = NoResult
    /\ expectedSeed = 0
    /\ PackIdle
    /\ SketchesIdle

\* let compact = sketch.compact(ordered)
DoCompact(ordered) ==
    /\ compactSketch = <<>>
    /\ origin = "none"
    /\ compactSketch' = Compact(thetaTable, ordered)
    /\ UNCHANGED <<thetaTable, wire, origin, craftedImage, restored, expectedSeed>>
    /\ UNCHANGED freqVars
    /\ UNCHANGED packVars
    /\ UNCHANGED <<hllVars, countMinVars>>

\* let bytes = compact.serialize()
DoThetaSerialize ==
    /\ compactSketch # <<>>
    /\ origin = "none"
    /\ wire' = CompactSerialize(compactSketch)
    /\ origin' = "serialize"
    /\ UNCHANGED <<thetaTable, compactSketch, craftedImage, restored, expectedSeed>>
    /\ UNCHANGED freqVars
    /\ UNCHANGED packVars
    /\ UNCHANGED <<hllVars, countMinVars>>

\* let bytes = compact.serialize_compressed()
DoSerializeCompressed(overflow_checks) ==
    /\ compactSketch # <<>>
    /\ origin = "none"
    /\ LET out == SerializeCompressed(compactSketch, overflow_checks)
       IN  IF out.panicked
           THEN wire' = <<>> /\ origin' = "panic"
           ELSE wire' = out.bytes /\ origin' = "serialize_compressed"
    /\ UNCHANGED <<thetaTable, compactSketch, craftedImage, restored, expectedSeed>>
    /\ UNCHANGED freqVars
    /\ UNCHANGED packVars
    /\ UNCHANGED <<hllVars, countMinVars>>

\* CompactThetaSketch::deserialize(&bytes)
DoDeserialize(overflow_checks) ==
    /\ origin \in {"serialize", "serialize_compressed"}
    /\ restored = NoResult
    /\ restored' = DeserializeWithSeed(wire, DEFAULT_UPDATE_SEED, overflow_checks)
    /\ expectedSeed' = DEFAULT_UPDATE_SEED
    /\ UNCHANGED <<thetaTable, compactSketch, wire, origin, craftedImage>>
    /\ UNCHANGED freqVars
    /\ UNCHANGED packVars
    /\ UNCHANGED <<hllVars, countMinVars>>

(***************************************************************************)
(* Images that no serializer of this library wrote: the layouts of serial  *)
(* versions 1 to 4 as deserialize_v1 .. deserialize_v4 read them, filled   *)
(* with chosen fields                                                      *)
(***************************************************************************)
SmallTheta == 100

\* a hash given as a small number, or i64::MAX for a negative one
HashOf(x) == IF x < 0 THEN MAX_THETA ELSE Word(x)

HashLists ==
    { <<>>, <<5>>, <<0>>, <<SmallTheta>>, <<-1>>, <<5, 7>>, <<5, 0>>, <<7, 5>>,
      <<5, SmallTheta + 1>>, <<5, -1>>,
      <<1, 2, 3, 4, 5, 6, 7, 8>>, <<0, 0, 0, 0, 0, 0, 0, 0>>,
      <<1, 2, 3, 4, 5, 6, 7, SmallTheta>>, <<3, 6, 9, 12, 15, 18, 21, 24, 27>>,
      <<3, 6, 9, 12, 15, 18, 21, 24, 0>> }

ImageFlags ==
    { BitOr(BitOr(FLAGS_IS_READ_ONLY, FLAGS_IS_COMPACT), FLAGS_IS_ORDERED),
      BitOr(FLAGS_IS_READ_ONLY, FLAGS_IS_COMPACT),
      BitOr(BitOr(BitOr(FLAGS_IS_READ_ONLY, FLAGS_IS_COMPACT), FLAGS_IS_ORDERED),
            FLAGS_IS_EMPTY) }

\* does the layout of (ser_ver, pre_longs) hold a theta long
StoresTheta(ser_ver, pre_longs) ==
    \/ ser_ver = 1
    \/ ser_ver \in {2, 3} /\ pre_longs = 3
    \/ ser_ver = 4 /\ pre_longs > 1

\* the fields of an image; theta is MAX_THETA where the layout holds none, and
\* the layouts without an entry count hold none (v2, one preamble long) or one
\* entry (v3, one preamble long)
ImageFields ==
    { c \in [ser_ver   : 1..4,
             pre_longs : THETA_MIN_PRE_LONGS..THETA_MAX_PRE_LONGS,
             flags     : ImageFlags,
             seed_hash : {ComputeSeedHash(seed) : seed \in Seeds},
             theta     : {MAX_THETA, Word(SmallTheta)},
             entries   : {[i \in 1..Len(l) |-> HashOf(l[i])] : l \in HashLists}] :
        /\ StoresTheta(c.ser_ver, c.pre_longs) \/ c.theta = MAX_THETA
        /\ c.ser_ver = 2 /\ c.pre_longs = 1 => c.entries = <<>>
        /\ c.ser_ver = 3 /\ c.pre_longs = 1 => Len(c.entries) = 1
        /\ c.ser_ver = 1 => c.flags = BitOr(FLAGS_IS_READ_ONLY, FLAGS_IS_COMPACT) }

\* the deltas of the entries, wrapping, packed one after the other at the
\* width compute_entry_bits gives them
PackedDeltas(entries) ==
    LET entry_bits == ComputeEntryBits(entries)
        size       == (Len(entries) * entry_bits + 7) \div 8
    IN  PackTail(BitPackerNew(Zeros(size)), Deltas(entries), 1, entry_bits).bytes

AssembleImage(c) ==
    LET n     == Len(c.entries)
        raw   == WriteEntries(c.entries)
        count == LeBytes(n, 4) \o BeBytes(0, 4)
        theta == IF StoresTheta(c.ser_ver, c.pre_longs) THEN WriteU64Le(c.theta) ELSE <<>>
    IN  IF c.ser_ver = 1
        THEN <<c.pre_longs, 1, THETA_FAMILY_ID, 0>> \o LeBytes(0, 4) \o count \o theta \o raw
        ELSE IF c.ser_ver = 2
        THEN <<c.pre_longs, 2, THETA_FAMILY_ID, 0>> \o LeBytes(0, 2)
             \o LeBytes(c.seed_hash, 2)
             \o (IF c.pre_longs > 1 THEN count ELSE <<>>) \o theta \o raw
        ELSE IF c.ser_ver = 3
        THEN <<c.pre_longs, 3, THETA_FAMILY_ID>> \o BeBytes(0, 2) \o <<c.flags>>
             \o LeBytes(c.seed_hash, 2)
             \o (IF c.pre_longs > 1 THEN count ELSE <<>>) \o theta \o raw
        ELSE <<c.pre_longs, 4, THETA_FAMILY_ID, ComputeEntryBits(c.entries), 1, c.flags>>
             \o LeBytes(c.seed_hash, 2) \o theta \o <<n>> \o PackedDeltas(c.entries)

\* CompactThetaSketch::deserialize(&bytes) of bytes from elsewhere.  The
\* function reads no sketch, so it is applied before any sketch is built.
DoDeserializeImage ==
    /\ thetaTable = NewThetaTable
    /\ compactSketch = <<>>
    /\ origin = "none"
    /\ \E c \in ImageFields, overflow_checks \in BOOLEAN :
           /\ wire' = AssembleImage(c)
           /\ craftedImage' = c
           /\ restored' = DeserializeWithSeed(wire', DEFAULT_UPDATE_SEED, overflow_checks)
    /\ origin' = "image"
    /\ expectedSeed' = DEFAULT_UPDATE_SEED
    /\ UNCHANGED <<thetaTable, compactSketch>>
    /\ UNCHANGED freqVars
    /\ UNCHANGED packVars
    /\ UNCHANGED <<hllVars, countMinVars>>

NextTheta ==
    \/ \E ordered \in BOOLEAN : DoCompact(ordered)
    \/ DoThetaSerialize
    \/ \E overflow_checks \in BOOLEAN : DoSerializeCompressed(overflow_checks)
    \/ \E overflow_checks \in BOOLEAN : DoDeserialize(overflow_checks)
    \/ DoDeserializeImage

SpecTheta == InitTheta /\ [][NextTheta]_vars

\* s was built with the default update seed, or is empty
ReadableWithDefaultSeed(s) ==
    s.seed_hash = ComputeSeedHash(DEFAULT_UPDATE_SEED) \/ s.empty

\* C8, as stated: for every CompactThetaSketch s produced by
\* ThetaSketch::compact(ordered), deserialize(serialize(s)) succeeds and
\* yields the entries, theta, seed_hash, ordered flag and empty flag of s.
C8_SerializeRoundTrip ==
    origin = "serialize" /\ restored # NoResult => restored = Ok(compactSketch)

\* C8, amended: for every CompactThetaSketch s produced by compact(ordered) of
\* a sketch built with the default update seed, and for every empty s,
\* deserialize(serialize(s)) succeeds and yields the entries, theta, seed_hash,
\* ordered flag and empty flag of s.
C8_SerializeRoundTripDefaultSeed ==
    origin = "serialize" /\ restored # NoResult /\ ReadableWithDefaultSeed(compactSketch)
        => restored = Ok(compactSketch)

\* an unordered estimation-mode sketch of several entries came back from its
\* serialized image
C8_Witness ==
    /\ origin = "serialize"
    /\ restored.ok
    /\ restored.sketch = compactSketch
    /\ Len(compactSketch.entries) > BLOCK_WIDTH
    /\ ~compactSketch.ordered
    /\ IsEstimationMode(compactSketch)

\* serialize_compressed chose serVer 4 exactly for the ordered, non-empty
\* sketches that are not a single entry with theta == MAX_THETA, and wrote the
\* bytes of serialize otherwise
CompressedWhenSuitable ==
    origin = "serialize_compressed" =>
        /\ wire[2] = COMPRESSED_SERIAL_VERSION
               <=> /\ compactSketch.ordered
                   /\ ~compactSketch.empty
                   /\ ~(Len(compactSketch.entries) = 1 /\ compactSketch.theta = MAX_THETA)
        /\ wire[2] # COMPRESSED_SERIAL_VERSION => wire = CompactSerialize(compactSketch)

InvalidHash(h, theta) == h = ZeroWord \/ ~LtWord(h, theta)

\* the entries the layout of the image holds: a v3 image flagged empty holds
\* none
StoredEntries(c) ==
    IF c.ser_ver = 3 /\ BitAnd(c.flags, FLAGS_IS_EMPTY) # 0 THEN <<>> ELSE c.entries

\* the seed hash of the image passes deserialize: v1 images carry none, and
\* v3 and v4 images flagged empty are not compared
SeedAccepted(c) ==
    \/ c.ser_ver = 1
    \/ c.seed_hash = ComputeSeedHash(DEFAULT_UPDATE_SEED)
    \/ c.ser_ver \in {3, 4} /\ BitAnd(c.flags, FLAGS_IS_EMPTY) # 0

\* C10: every sketch deserialize returns as Ok, for serial versions 1 to 4,
\* has only entries h with 0 < h < theta; an image in which a stored (v1-v3) or
\* delta-reconstructed (v4) entry is 0 or >= theta is rejected with the
\* 'invalid retained hash value' error.
C10_RetainedHashesValid ==
    /\ restored.ok =>
           \A i \in 1..Len(restored.sketch.entries) :
               ~InvalidHash(restored.sketch.entries[i], restored.sketch.theta)
    /\ /\ origin = "image"
       /\ SeedAccepted(craftedImage)
       /\ \E i \in 1..Len(StoredEntries(craftedImage)) :
              InvalidHash(StoredEntries(craftedImage)[i], craftedImage.theta)
       => restored = InvalidRetainedHash

(***************************************************************************)
(* Serialized images read back with a chosen seed, or cut short            *)
(***************************************************************************)
\* the tables whose images are read back whole and in every prefix
ReadTables == {t \in ThetaTables : Len(t.entries) < MaxEntries}

InitThetaRead ==
    /\ sk = New(8)
    /\ trueCount = ZeroCounts
    /\ other = New(8)
    /\ otherTrue = ZeroCounts
    /\ lastOp = "new"
    /\ prev = New(8)
    /\ image = <<>>
    /\ decoded = NoResult
    /\ thetaTable \in ReadTables
    /\ compactSketch = <<>>
    /\ wire = <<>>
    /\ origin = "none"
    /\ craftedImage = <<>>
    /\ restored = NoResult
    /\ expectedSeed = 0
    /\ PackIdle
    /\ SketchesIdle

\* CompactThetaSketch::deserialize_with_seed(&bytes, seed)
DoDeserializeWithSeed(seed, overflow_checks) ==
    /\ origin \in {"serialize", "serialize_compressed"}
    /\ restored = NoResult
    /\ restored' = DeserializeWithSeed(wire, seed, overflow_checks)
    /\ expectedSeed' = seed
    /\ UNCHANGED <<thetaTable, compactSketch, wire, origin, craftedImage>>
    /\ UNCHANGED freqVars
    /\ UNCHANGED packVars
    /\ UNCHANGED <<hllVars, countMinVars>>

\* bytes.truncate(len); CompactThetaSketch::deserialize(&bytes)
DoDeserializePrefix(len, overflow_checks) ==
    /\ origin \in {"serialize", "serialize_compressed"}
    /\ restored = NoResult
    /\ len < Len(wire)
    /\ wire' = SubSeq(wire, 1, len)
    /\ origin' = "prefix"
    /\ restored' = DeserializeWithSeed(wire', DEFAULT_UPDATE_SEED, overflow_checks)
    /\ expectedSeed' = DEFAULT_UPDATE_SEED
    /\ UNCHANGED <<thetaTable, compactSketch, craftedImage>>
    /\ UNCHANGED freqVars
    /\ UNCHANGED packVars
    /\ UNCHANGED <<hllVars, countMinVars>>

NextThetaRead ==
    \/ \E ordered \in BOOLEAN : DoCompact(ordered)
    \/ DoThetaSerialize
    \/ \E overflow_checks \in BOOLEAN : DoSerializeCompressed(overflow_checks)
    \/ \E seed \in Seeds, overflow_checks \in BOOLEAN :
           DoDeserializeWithSeed(seed, overflow_checks)
    \/ \E len \in 0..(Len(wire) - 1), overflow_checks \in BOOLEAN :
           DoDeserializePrefix(len, overflow_checks)

SpecThetaRead == InitThetaRead /\ [][NextThetaRead]_vars

\* C11: for every non-empty compact sketch image written by serialize or
\* serialize_compressed with seed s, deserialize_with_seed(bytes, s') with
\* compute_seed_hash(s') != compute_seed_hash(s) returns the 'incompatible
\* seed hash' error and never a sketch.
C11_SeedMismatchRejected ==
    /\ origin \in {"serialize", "serialize_compressed"}
    /\ restored # NoResult
    /\ ~compactSketch.empty
    /\ ComputeSeedHash(expectedSeed) # compactSketch.seed_hash
    => restored = IncompatibleSeedHash

\* a serVer 4 image written with the default seed was refused for another seed
C11_Witness ==
    /\ origin = "serialize_compressed"
    /\ wire[2] = COMPRESSED_SERIAL_VERSION
    /\ compactSketch.seed_hash = ComputeSeedHash(DEFAULT_UPDATE_SEED)
    /\ expectedSeed # 0
    /\ expectedSeed # DEFAULT_UPDATE_SEED
    /\ restored = IncompatibleSeedHash

(***************************************************************************)
(* The canonical form of a CompactThetaSketch                              *)
(***************************************************************************)
\* is_empty() implies num_retained() == 0 and theta64() == MAX_THETA
CanonicalEmpty(s) == s.empty => s.entries = <<>> /\ s.theta = MAX_THETA

\* the entries iter() returns are in ascending order
SortedAscending(entries) ==
    \A i \in 1..(Len(entries) - 1) : ~LtWord(entries[i + 1], entries[i])

\* C12: every CompactThetaSketch from ThetaSketch::compact or from a
\* successful deserialize of any serial version (v1, v2 with 1, 2 or 3
\* preamble longs, v3, v4) satisfies: is_empty() implies num_retained() == 0
\* and theta64() == MAX_THETA; in particular compact() of a never-updated
\* sketch built with p < 1 has theta == MAX_THETA.
C12_EmptyIsCanonical ==
    /\ compactSketch # <<>> => CanonicalEmpty(compactSketch)
    /\ restored.ok => CanonicalEmpty(restored.sketch)

\* C13: every CompactThetaSketch from ThetaSketch::compact(ordered) or from a
\* successful deserialize of any serial version satisfies: is_ordered()
\* implies that the entries of iter() are sorted in ascending order.
C13_OrderedIsSorted ==
    /\ compactSketch # <<>> /\ compactSketch.ordered
           => SortedAscending(compactSketch.entries)
    /\ restored.ok /\ restored.sketch.ordered
           => SortedAscending(restored.sketch.entries)

\* C14: for every ThetaSketch with at most one retained entry, a single entry
\* retained while theta < MAX_THETA included, compact(false) returns a sketch
\* whose is_ordered() is true.  (compact(true) is ordered for every sketch.)
C14_AtMostOneEntryOrdered ==
    compactSketch # <<>> /\ Len(thetaTable.entries) <= 1 => compactSketch.ordered

(***************************************************************************)
(* Truncated images                                                        *)
(***************************************************************************)
\* C15, as stated: for every CompactThetaSketch s produced by compact() and
\* every proper prefix p of serialize(s) or of serialize_compressed(s),
\* deserialize(p) returns an 'insufficient data' error; no truncated image is
\* accepted as a sketch.
C15_TruncatedRejected ==
    origin = "prefix" => restored = InsufficientData

\* C15, amended: the same for every s produced by compact() of a sketch built
\* with the default update seed and for every empty s; for every other s the
\* prefix is refused as well, with 'insufficient data' or 'incompatible seed
\* hash'.
C15_TruncatedRejectedDefaultSeed ==
    origin = "prefix" =>
        /\ ReadableWithDefaultSeed(compactSketch) => restored = InsufficientData
        /\ restored \in {InsufficientData, IncompatibleSeedHash}

\* a serVer 4 image cut inside its last block of deltas, and a serVer 3 image
\* cut inside an entry, were refused
C15_Witness ==
    /\ origin = "prefix"
    /\ restored = InsufficientData
    /\ Len(compactSketch.entries) > BLOCK_WIDTH
    /\ Len(wire) > 8
    /\ \/ wire[2] = COMPRESSED_SERIAL_VERSION
          /\ Len(wire) > 8 + 1 + ComputeEntryBits(compactSketch.entries)
       \/ wire[2] = UNCOMPRESSED_SERIAL_VERSION
          /\ Len(wire) > 24 /\ Len(wire) % 8 # 0

(***************************************************************************)
(* Totality of deserialize_with_seed                                       *)
(***************************************************************************)
\* C16: deserialize_with_seed is total on byte strings: for every input it
\* returns Ok or a typed Err and never panics; a serVer 4 image whose
\* entry_bits byte is 0 or >= 64, whose num_entries_bytes byte exceeds the
\* width of the entry counter, or whose deltas sum past u64::MAX, is rejected
\* with an error and reaches no assertion, shift overflow or arithmetic
\* overflow.
C16_DeserializeTotal ==
    restored \notin {Panicked, AllocationOutcome}

(***************************************************************************)
(* The bit-packing codec: BitPacker, BitUnpacker and the block functions   *)
(***************************************************************************)
\* the number of blocks of values tried at each width
MaxBlockPattern == 4

\* bit i (0 the least significant) of value j in the k-th block of values:
\* all ones, every other value all ones, and two irregular fillings
PatternBit(k, j, i) ==
    IF k = 1 THEN 1
    ELSE IF k = 2 THEN j % 2
    ELSE IF k = 3 THEN (IF (i * i + 3 * i * j + 5 * j) % 7 < 3 THEN 1 ELSE 0)
    ELSE (IF (i + j) % 3 = 0 THEN 1 ELSE 0)

\* value j of the k-th block, below 2^bits
PatternValue(k, j, bits) ==
    Tuple([i \in 1..U64_BITS |->
              IF i <= U64_BITS - bits THEN 0 ELSE PatternBit(k, j, U64_BITS - i)])

\* let mut packer = BitPacker::new(&mut bytes); nothing packed or read yet
NewPacker(bytes) ==
    /\ bitPacker = BitPackerNew(bytes)
    /\ packedValues = <<>>
    /\ bitUnpacker = <<>>
    /\ unpackedValues = <<>>

\* packer.pack_value(value, bits), while the packer holds the buffer
DoPackValue(value, bits) ==
    /\ bitUnpacker = <<>>
    /\ bitPacker' = PackValue(bitPacker, value, bits)
    /\ packedValues' = Append(packedValues, [value |-> value, bits |-> bits])
    /\ UNCHANGED <<bitUnpacker, unpackedValues, blockBits, blockValues, blockBytes, blockOut>>
    /\ UNCHANGED <<freqVars, thetaVars>>
    /\ UNCHANGED <<hllVars, countMinVars>>

\* the widths to read: the width of the block, or those that were packed
ReadWidths ==
    IF blockBits > 0 THEN [j \in 1..BLOCK_WIDTH |-> blockBits]
    ELSE [j \in 1..Len(packedValues) |-> packedValues[j].bits]

\* the buffers that hold packed values: the block pack_bits_block filled, and
\* the packer's once its values are packed
PackedBuffers ==
    (IF blockBytes # <<>> /\ ~blockBytes.panicked THEN {blockBytes.bytes} ELSE {})
    \cup (IF /\ packedValues # <<>>
             /\ ~bitPacker.panicked
             /\ blockBits > 0 => Len(packedValues) = BLOCK_WIDTH
          THEN {bitPacker.bytes} ELSE {})

\* let mut unpacker = BitUnpacker::new(&bytes)
DoNewUnpacker(bytes) ==
    /\ bitUnpacker = <<>>
    /\ bitUnpacker' = BitUnpackerNew(bytes)
    /\ UNCHANGED <<bitPacker, packedValues, unpackedValues,
                   blockBits, blockValues, blockBytes, blockOut>>
    /\ UNCHANGED <<freqVars, thetaVars>>
    /\ UNCHANGED <<hllVars, countMinVars>>

\* unpacker.unpack_value(bits), for the next width to read
DoUnpackValue ==
    /\ bitUnpacker # <<>>
    /\ Len(unpackedValues) < Len(ReadWidths)
    /\ LET r == UnpackValue(bitUnpacker, ReadWidths[Len(unpackedValues) + 1])
       IN  /\ bitUnpacker' = r.unpacker
           /\ unpackedValues' = Append(unpackedValues, r.value)
    /\ UNCHANGED <<bitPacker, packedValues, blockBits, blockValues, blockBytes, blockOut>>
    /\ UNCHANGED <<freqVars, thetaVars>>
    /\ UNCHANGED <<hllVars, countMinVars>>

(***************************************************************************)
(* One block of 8 values of one width, packed by pack_bits_block and by a  *)
(* BitPacker, unpacked by unpack_bits_block and by a BitUnpacker           *)
(***************************************************************************)
InitBlock ==
    /\ sk = New(8)
    /\ trueCount = ZeroCounts
    /\ other = New(8)
    /\ otherTrue = ZeroCounts
    /\ lastOp = "new"
    /\ prev = New(8)
    /\ image = <<>>
    /\ decoded = NoResult
    /\ ThetaIdle
    /\ SketchesIdle
    /\ \E bits \in 1..63, k \in 1..MaxBlockPattern :
           /\ blockBits = bits
           /\ blockValues = [j \in 1..BLOCK_WIDTH |-> PatternValue(k, j, bits)]
           /\ NewPacker(Zeros(bits))
    /\ blockBytes = <<>>
    /\ blockOut = <<>>

\* let mut bytes = vec![0u8; bits]; pack_bits_block(&values, &mut bytes, bits)
DoPackBitsBlock ==
    /\ blockBytes = <<>>
    /\ blockBytes' = PackBitsBlock(blockValues, Zeros(blockBits), blockBits)
    /\ UNCHANGED <<bitPacker, packedValues, bitUnpacker, unpackedValues,
                   blockBits, blockValues, blockOut>>
    /\ UNCHANGED <<freqVars, thetaVars>>
    /\ UNCHANGED <<hllVars, countMinVars>>

\* unpack_bits_block(&mut output, &bytes, bits)
DoUnpackBitsBlock(bytes) ==
    /\ blockOut = <<>>
    /\ blockOut' = UnpackBitsBlock(bytes, blockBits)
    /\ UNCHANGED <<bitPacker, packedValues, bitUnpacker, unpackedValues,
                   blockBits, blockValues, blockBytes>>
    /\ UNCHANGED <<freqVars, thetaVars>>
    /\ UNCHANGED <<hllVars, countMinVars>>

NextBlock ==
    \/ DoPackBitsBlock
    \/ \E bytes \in PackedBuffers : DoUnpackBitsBlock(bytes)
    \/ /\ Len(packedValues) < BLOCK_WIDTH
       /\ DoPackValue(blockValues[Len(packedValues) + 1], blockBits)
    \/ \E bytes \in PackedBuffers : DoNewUnpacker(bytes)
    \/ DoUnpackValue

SpecBlock == InitBlock /\ [][NextBlock]_vars

F64_MANT_BITS == 53
F64_EXP_BIAS == 1023
\* 2^27: a significand is handled as 26 high and 27 low bits
LIMB == 134217728

\* the bits without their leading zeros
RECURSIVE StripZeros(_)
StripZeros(bits) ==
    IF bits = <<>> \/ bits[1] = 1 THEN bits ELSE StripZeros(Tail(bits))

\* a + b for two sequences of n bits: n + 1 bits
RECURSIVE BitsCarry(_, _, _)
BitsCarry(a, b, i) ==
    IF i > Len(a) THEN 0
    ELSE IF a[i] = b[i] THEN a[i]
    ELSE BitsCarry(a, b, i + 1)

BitsAdd(a, b) ==
    Tuple([i \in 1..Len(a) + 1 |->
              IF i = 1 THEN BitsCarry(a, b, 1)
              ELSE (a[i - 1] + b[i - 1] + BitsCarry(a, b, i)) % 2])

\* a - b for two sequences of n bits, a >= b
RECURSIVE BitsBorrow(_, _, _)
BitsBorrow(a, b, i) ==
    IF i > Len(a) THEN 0
    ELSE IF a[i] # b[i] THEN (IF a[i] < b[i] THEN 1 ELSE 0)
    ELSE BitsBorrow(a, b, i + 1)

BitsSub(a, b) ==
    Tuple([i \in 1..Len(a) |-> (a[i] - b[i] - BitsBorrow(a, b, i + 1) + 2) % 2])

\* bits padded with zeros on the left to n bits / followed by n zeros
PadLeft(bits, n) == [i \in 1..n - Len(bits) |-> 0] \o bits

ShiftBits(bits, n) == bits \o [i \in 1..n |-> 0]

\* the significand (with its hidden bit) and the exponent of its last bit
F64Unpack(x) ==
    LET biased == BitsVal(SubSeq(x, 2, 12))
    IN  IF biased = 0
        THEN [m |-> SubSeq(x, 13, 64), e |-> 1 - F64_EXP_BIAS - (F64_MANT_BITS - 1)]
        ELSE [m |-> <<1>> \o SubSeq(x, 13, 64),
              e |-> biased - F64_EXP_BIAS - (F64_MANT_BITS - 1)]

\* the f64 with significand m (53 bits, the first one 1) and exponent e of
\* its last bit
F64Pack(m, e) ==
    LET biased == e + F64_EXP_BIAS + (F64_MANT_BITS - 1)
    IN  Tuple(<<0>> \o [i \in 1..11 |-> (biased \div Pow2(11 - i)) % 2]
                  \o SubSeq(m, 2, F64_MANT_BITS))

\* the f64 nearest to m * 2^e (plus less than 2^e when sticky), ties to even
F64Round(m, e, sticky) ==
    LET s == StripZeros(m)
        n == Len(s)
    IN  IF n = 0 THEN ZeroWord
        ELSE IF n <= F64_MANT_BITS
        THEN F64Pack(ShiftBits(s, F64_MANT_BITS - n), e - (F64_MANT_BITS - n))
        ELSE LET top   == SubSeq(s, 1, F64_MANT_BITS)
                 guard == s[F64_MANT_BITS + 1]
                 rest  == sticky \/ \E i \in F64_MANT_BITS + 2..n : s[i] = 1
                 up    == guard = 1 /\ (rest \/ top[F64_MANT_BITS] = 1)
                 inc   == BitsAdd(top, PadLeft(<<1>>, F64_MANT_BITS))
             IN  IF ~up THEN F64Pack(top, e + n - F64_MANT_BITS)
                 ELSE IF inc[1] = 1
                 THEN F64Pack(SubSeq(inc, 1, F64_MANT_BITS), e + n - F64_MANT_BITS + 1)
                 ELSE F64Pack(Tail(inc), e + n - F64_MANT_BITS)

\* 2^n as f64
F64Pow2(n) == F64Pack(ShiftBits(<<1>>, F64_MANT_BITS - 1), n - (F64_MANT_BITS - 1))

\* x + y
F64Add(x, y) ==
    IF x = ZeroWord THEN y
    ELSE IF y = ZeroWord THEN x
    ELSE LET ux == F64Unpack(x)
             uy == F64Unpack(y)
             hi == IF ux.e >= uy.e THEN ux ELSE uy
             lo == IF ux.e >= uy.e THEN uy ELSE ux
             d  == hi.e - lo.e
         IN  IF d > 2 * F64_MANT_BITS
             THEN F64Round(ShiftBits(hi.m, 2), hi.e - 2, TRUE)
             ELSE LET a == ShiftBits(hi.m, d)
                  IN  F64Round(BitsAdd(a, PadLeft(lo.m, Len(a))), lo.e, FALSE)

\* x - y, x >= y > 0, the exponents at most 2 * 53 apart
F64Sub(x, y) ==
    LET ux == F64Unpack(x)
        uy == F64Unpack(y)
        e  == Min(ux.e, uy.e)
        a  == ShiftBits(ux.m, ux.e - e)
        b  == ShiftBits(uy.m, uy.e - e)
        n  == Max(Len(a), Len(b))
    IN  F64Round(BitsSub(PadLeft(a, n), PadLeft(b, n)), e, FALSE)

\* n more bits of the quotient of rem * 2^n by d, after the bits q, and
\* whether the division is exact; rem < d are pairs <<high bits, low 27 bits>>
RECURSIVE DivLoop(_, _, _, _)
DivLoop(rem, d, n, q) ==
    IF n = 0 THEN [q |-> q, exact |-> rem = <<0, 0>>]
    ELSE LET lo2 == 2 * rem[2]
             r   == <<2 * rem[1] + lo2 \div LIMB, lo2 % LIMB>>
             ge  == r[1] > d[1] \/ (r[1] = d[1] /\ r[2] >= d[2])
             bw  == IF r[2] < d[2] THEN 1 ELSE 0
         IN  IF ge
             THEN DivLoop(<<r[1] - d[1] - bw, r[2] - d[2] + bw * LIMB>>, d, n - 1,
                          Append(q, 1))
             ELSE DivLoop(r, d, n - 1, Append(q, 0))

\* a significand of 53 bits as <<high 26 bits, low 27 bits>>
Limbs(m) == <<BitsVal(SubSeq(m, 1, 26)), BitsVal(SubSeq(m, 27, 53))>>

\* x / y, both normal
F64Div(x, y) ==
    LET ux == F64Unpack(x)
        uy == F64Unpack(y)
        dx == Limbs(ux.m)
        dy == Limbs(uy.m)
        ge == dx[1] > dy[1] \/ (dx[1] = dy[1] /\ dx[2] >= dy[2])
        bw == IF dx[2] < dy[2] THEN 1 ELSE 0
        \* the first quotient bit, then 55 more
        r  == DivLoop(IF ge THEN <<dx[1] - dy[1] - bw, dx[2] - dy[2] + bw * LIMB>>
                      ELSE dx,
                      dy, F64_MANT_BITS + 2, IF ge THEN <<1>> ELSE <<0>>)
    IN  F64Round(r.q, ux.e - uy.e - (F64_MANT_BITS + 2), ~r.exact)

(***************************************************************************)
(* HLL: hll/mod.rs (coupons), hll/estimator.rs (HipEstimator) and          *)
(* hll/serialization.rs (the layout of the HLL preamble)                   *)
(***************************************************************************)
\* pack_coupon(slot, value): the slot in the low 26 bits, the value in the 6
\* bits above them, kept as the two fields
pack_coupon(slot, value) == [slot |-> slot, value |-> value]

get_slot(coupon) == coupon.slot

get_value(coupon) == coupon.value

\* inv_pow2(value): 2^-value
inv_pow2(value) == F64Pow2(0 - value)

\* HipEstimator::new
HipEstimatorNew(lg_config_k) ==
    [hip_accum    |-> ZeroWord,
     kxq0         |-> F64Pow2(lg_config_k),
     kxq1         |-> ZeroWord,
     out_of_order |-> FALSE]

\* HipEstimator::update: the accumulator first, then the two KxQ registers,
\* values below 32 in kxq0 and the others in kxq1
HipEstimatorUpdate(est, lg_config_k, old_value, new_value) ==
    LET hip   == IF est.out_of_order THEN est.hip_accum
                 ELSE F64Add(est.hip_accum,
                             F64Div(F64Pow2(lg_config_k), F64Add(est.kxq0, est.kxq1)))
        sub0  == IF old_value < 32 THEN F64Sub(est.kxq0, inv_pow2(old_value)) ELSE est.kxq0
        sub1  == IF old_value < 32 THEN est.kxq1 ELSE F64Sub(est.kxq1, inv_pow2(old_value))
    IN  [est EXCEPT !.hip_accum = hip,
                    !.kxq0 = IF new_value < 32 THEN F64Add(sub0, inv_pow2(new_value)) ELSE sub0,
                    !.kxq1 = IF new_value < 32 THEN sub1 ELSE F64Add(sub1, inv_pow2(new_value))]

HLL_PREINTS == 10
HLL_SER_VER == 1
HLL_FAMILY_ID == 7
OUT_OF_ORDER_FLAG_MASK == 16
CUR_MODE_HLL == 2
TGT_HLL8 == 2
HLL_FLAGS_BYTE == 5
HLL_PREAMBLE_SIZE == 40
HIP_ACCUM_DOUBLE == 8
KXQ0_DOUBLE == 16
KXQ1_DOUBLE == 24
CUR_MIN_COUNT_INT == 32
AUX_COUNT_INT == 36
HLL_BYTE_ARR_START == 40

\* read_u32_le: from_le_bytes of the 4 bytes at offset; a u32 of 2^31 or more
\* is kept as its value as an i32
ReadU32Le(bytes, offset) ==
    LET top == bytes[offset + 4]
    IN  ReadLe(bytes, offset, 3) + Pow2(24) * (IF top >= 128 THEN top - 256 ELSE top)

\* encode_mode_byte(cur_mode, tgt_type)
encode_mode_byte(cur_mode, tgt_type) == cur_mode + 4 * tgt_type

\* bytes 0..8 of the preamble: preamble ints, serial version, family, lg_k,
\* lg_arr, flags, cur_min and the mode byte
HllHeader(lg_config_k, flags) ==
    <<HLL_PREINTS, HLL_SER_VER, HLL_FAMILY_ID, lg_config_k, 0, flags, 0,
      encode_mode_byte(CUR_MODE_HLL, TGT_HLL8)>>

(***************************************************************************)
(* HLL: hll/array8.rs                                                      *)
(***************************************************************************)
\* Array8::new
Array8New(lg_config_k) ==
    [lg_config_k |-> lg_config_k,
     bytes       |-> Zeros(Pow2(lg_config_k)),
     num_zeros   |-> Pow2(lg_config_k),
     estimator   |-> HipEstimatorNew(lg_config_k)]

\* Array8::get
Array8Get(a, slot) == a.bytes[slot + 1]

\* Array8::put
Array8Put(a, slot, value) == [a EXCEPT !.bytes[slot + 1] = value]

\* variant: the register takes the coupon's value whatever it held
Array8Update_Overwrite(a, coupon, overflow_checks) ==
    LET mask      == Pow2(a.lg_config_k) - 1
        slot      == BitAnd(get_slot(coupon), mask)
        new_value == get_value(coupon)
        old_value == Array8Get(a, slot)
        promoted  == [Array8Put(a, slot, new_value) EXCEPT
                         !.estimator = HipEstimatorUpdate(@, a.lg_config_k,
                                                          old_value, new_value)]
    IN  IF new_value # old_value
        THEN IF old_value = 0
             THEN IF promoted.num_zeros = 0 /\ overflow_checks
                  THEN [array |-> promoted, panicked |-> TRUE]
                  ELSE [array |-> [promoted EXCEPT !.num_zeros = @ - 1], panicked |-> FALSE]
             ELSE [array |-> promoted, panicked |-> FALSE]
        ELSE [array |-> a, panicked |-> FALSE]

\* Array8::update: the array after the call, and whether `num_zeros -= 1`
\* panicked; without overflow checks a num_zeros of 0 wraps to u32::MAX,
\* which is kept as -1, its value as an i32
Array8Update(a, coupon, overflow_checks) ==
    LET mask      == Pow2(a.lg_config_k) - 1
        slot      == BitAnd(get_slot(coupon), mask)
        new_value == get_value(coupon)
        old_value == Array8Get(a, slot)
        promoted  == [Array8Put(a, slot, new_value) EXCEPT
                         !.estimator = HipEstimatorUpdate(@, a.lg_config_k,
                                                          old_value, new_value)]
    IN  IF new_value > old_value
        THEN IF old_value = 0
             THEN IF promoted.num_zeros = 0 /\ overflow_checks
                  THEN [array |-> promoted, panicked |-> TRUE]
                  ELSE [array |-> [promoted EXCEPT !.num_zeros = @ - 1], panicked |-> FALSE]
             ELSE [array |-> promoted, panicked |-> FALSE]
        ELSE [array |-> a, panicked |-> FALSE]

\* Array8::estimate while the estimator is in order: the HIP accumulator
Array8Estimate(a) == a.estimator.hip_accum

\* variant: kxq1 is read from the offset of kxq0
Array8Deserialize_Kxq1FromKxq0(bytes, lg_config_k, compact, ooo) ==
    LET k == Pow2(lg_config_k)
        expected_len == IF compact THEN HLL_PREAMBLE_SIZE ELSE HLL_PREAMBLE_SIZE + k
    IN  IF Len(bytes) < expected_len THEN InsufficientData
        ELSE [ok    |-> TRUE,
              array |-> [lg_config_k |-> lg_config_k,
                         bytes       |-> IF compact THEN Zeros(k)
                                         ELSE SubSeq(bytes, HLL_BYTE_ARR_START + 1,
                                                     HLL_BYTE_ARR_START + k),
                         num_zeros   |-> ReadU32Le(bytes, CUR_MIN_COUNT_INT),
                         estimator   |-> [hip_accum    |-> ReadU64Le(bytes, HIP_ACCUM_DOUBLE),
                                          kxq0         |-> ReadU64Le(bytes, KXQ0_DOUBLE),
                                          kxq1         |-> ReadU64Le(bytes, KXQ0_DOUBLE),
                                          out_of_order |-> ooo]]]

\* Array8::deserialize
Array8Deserialize(bytes, lg_config_k, compact, ooo) ==
    LET k == Pow2(lg_config_k)
        expected_len == IF compact THEN HLL_PREAMBLE_SIZE ELSE HLL_PREAMBLE_SIZE + k
    IN  IF Len(bytes) < expected_len THEN InsufficientData
        ELSE [ok    |-> TRUE,
              array |-> [lg_config_k |-> lg_config_k,
                         bytes       |-> IF compact THEN Zeros(k)
                                         ELSE SubSeq(bytes, HLL_BYTE_ARR_START + 1,
                                                     HLL_BYTE_ARR_START + k),
                         num_zeros   |-> ReadU32Le(bytes, CUR_MIN_COUNT_INT),
                         estimator   |-> [hip_accum    |-> ReadU64Le(bytes, HIP_ACCUM_DOUBLE),
                                          kxq0         |-> ReadU64Le(bytes, KXQ0_DOUBLE),
                                          kxq1         |-> ReadU64Le(bytes, KXQ1_DOUBLE),
                                          out_of_order |-> ooo]]]

\* Array8::serialize; the byte array is copied into a tail of its own length
Array8Serialize(a, lg_config_k) ==
    LET k       == Pow2(lg_config_k)
        flags   == IF a.estimator.out_of_order THEN OUT_OF_ORDER_FLAG_MASK ELSE 0
        header  == WriteAt(Zeros(HLL_PREAMBLE_SIZE + k), 0, HllHeader(lg_config_k, flags))
        hip     == WriteAt(header, HIP_ACCUM_DOUBLE, WriteU64Le(a.estimator.hip_accum))
        kxq0    == WriteAt(hip, KXQ0_DOUBLE, WriteU64Le(a.estimator.kxq0))
        kxq1    == WriteAt(kxq0, KXQ1_DOUBLE, WriteU64Le(a.estimator.kxq1))
        zeros   == WriteAt(kxq1, CUR_MIN_COUNT_INT, LeBytes(a.num_zeros, 4))
        aux     == WriteAt(zeros, AUX_COUNT_INT, LeBytes(0, 4))
    IN  Tuple(WriteAt(aux, HLL_BYTE_ARR_START, a.bytes))

(***************************************************************************)
(* The block functions on buffers of every length and at every width byte  *)
(***************************************************************************)
\* the lengths of buffer tried at a width: around the bits bytes the block
\* needs and around the bits * BLOCK_WIDTH the assertions compare with
BufferLens(bits) ==
    {n \in {0, bits - 1, bits, bits + 1, bits * BLOCK_WIDTH - 1,
            bits * BLOCK_WIDTH, bits * BLOCK_WIDTH + 1} : n >= 0}

InitBlockBuffer ==
    /\ sk = New(8)
    /\ trueCount = ZeroCounts
    /\ other = New(8)
    /\ otherTrue = ZeroCounts
    /\ lastOp = "new"
    /\ prev = New(8)
    /\ image = <<>>
    /\ decoded = NoResult
    /\ ThetaIdle
    /\ SketchesIdle
    /\ \E bits \in 0..U64_BITS, k \in 1..MaxBlockPattern :
           /\ blockBits = bits
           /\ blockValues = [j \in 1..BLOCK_WIDTH |-> PatternValue(k, j, bits)]
    /\ bitPacker = <<>>
    /\ packedValues = <<>>
    /\ bitUnpacker = <<>>
    /\ unpackedValues = <<>>
    /\ blockBytes = <<>>
    /\ blockOut = <<>>

\* let mut bytes = [fill; len]; pack_bits_block(&values, &mut bytes, bits)
DoPackBitsBlockInto(len, fill) ==
    /\ blockBytes = <<>>
    /\ lastOp' = "pack_bits_block"
    /\ blockBytes' = PackBitsBlock(blockValues, [i \in 1..len |-> fill], blockBits)
    /\ UNCHANGED <<bitPacker, packedValues, bitUnpacker, unpackedValues,
                   blockBits, blockValues, blockOut>>
    /\ UNCHANGED <<sk, trueCount, other, otherTrue, prev, image, decoded>>
    /\ UNCHANGED <<hllVars, countMinVars>>
    /\ UNCHANGED thetaVars

\* let bytes = [fill; len]: a buffer handed to unpack_bits_block as it is
DoInputBuffer(len, fill) ==
    /\ blockBytes = <<>>
    /\ lastOp' = "buffer"
    /\ blockBytes' = [panicked |-> FALSE, bytes |-> [i \in 1..len |-> fill]]
    /\ UNCHANGED <<bitPacker, packedValues, bitUnpacker, unpackedValues,
                   blockBits, blockValues, blockOut>>
    /\ UNCHANGED <<sk, trueCount, other, otherTrue, prev, image, decoded>>
    /\ UNCHANGED <<hllVars, countMinVars>>
    /\ UNCHANGED thetaVars

NextBlockBuffer ==
    \/ \E len \in BufferLens(blockBits), fill \in {0, 255} :
           DoPackBitsBlockInto(len, fill)
    \/ \E len \in BufferLens(blockBits), fill \in {0, 255} :
           DoInputBuffer(len, fill)
    \/ \E bytes \in PackedBuffers : DoUnpackBitsBlock(bytes)

SpecBlockBuffer == InitBlockBuffer /\ [][NextBlockBuffer]_vars

\* C21: for every width b in 1..=63, pack_bits_block and unpack_bits_block
\* complete normally for every byte buffer that holds at least b bytes (of any
\* length >= b, reading/writing only its first b bytes), and are rejected only
\* when the buffer holds fewer than b bytes or when b == 0 or b >= 64.
C21_BlockAcceptsLongBuffers ==
    /\ lastOp = "pack_bits_block" =>
           /\ blockBytes.panicked
                  <=> (blockBits \notin 1..63 \/ Len(blockBytes.bytes) < blockBits)
           /\ ~blockBytes.panicked =>
                  \A i \in blockBits + 1..Len(blockBytes.bytes) :
                      blockBytes.bytes[i] \in {0, 255}
    /\ blockOut # <<>> =>
           (blockOut.panicked
                <=> (blockBits \notin 1..63 \/ Len(blockBytes.bytes) < blockBits))

(***************************************************************************)
(* Values of mixed widths packed by a BitPacker and read by a BitUnpacker  *)
(***************************************************************************)
\* the largest number of values packed into one buffer
MaxPackLen == 3
\* the number of values tried at each width of the second value
MaxValuePattern == 2

\* a buffer that holds MaxPackLen values of 64 bits
PackBufLen == 8 * MaxPackLen

\* the widths of a value packed after n others: the second value has every
\* width at every bit offset the first leaves it, the others a few widths
WidthsAfter(n) ==
    IF n = 1 THEN 0..U64_BITS
    ELSE IF n = 0 THEN (0..8) \cup {13, U64_BITS}
    ELSE {0, 5, U64_BITS}

\* the values below 2^bits tried after n others: an irregular filling, and
\* for the second value all ones as well
ValuesAfter(n, bits) ==
    IF n = 1 THEN {PatternValue(2 * k - 1, n + 1, bits) : k \in 1..MaxValuePattern}
    ELSE {PatternValue(3, n + 1, bits)}

InitBitPack ==
    /\ sk = New(8)
    /\ trueCount = ZeroCounts
    /\ other = New(8)
    /\ otherTrue = ZeroCounts
    /\ lastOp = "new"
    /\ prev = New(8)
    /\ image = <<>>
    /\ decoded = NoResult
    /\ ThetaIdle
    /\ SketchesIdle
    /\ \E fill \in {0, 255} : NewPacker([i \in 1..PackBufLen |-> fill])
    /\ blockBits = 0
    /\ blockValues = <<>>
    /\ blockBytes = <<>>
    /\ blockOut = <<>>

NextBitPack ==
    \/ \E bits \in WidthsAfter(Len(packedValues)) :
           \E value \in ValuesAfter(Len(packedValues), bits) :
               /\ Len(packedValues) < MaxPackLen
               /\ DoPackValue(value, bits)
    \/ \E bytes \in PackedBuffers : DoNewUnpacker(bytes)
    \/ DoUnpackValue

SpecBitPack == InitBitPack /\ [][NextBitPack]_vars

\* C18: for every sequence of pairs (v_i, b_i) with b_i in 0..=64 and
\* v_i < 2^b_i (the widths may differ, so a value may start at any bit offset
\* of a byte), packing the sequence with pack_value into a buffer that is
\* large enough and reading it with unpack_value at the same widths returns
\* v_1 .. v_n in order.
C18_PackUnpackRoundTrip ==
    /\ ~bitPacker.panicked
    /\ bitUnpacker # <<>> =>
           /\ ~bitUnpacker.panicked
           /\ \A i \in 1..Len(unpackedValues) : unpackedValues[i] = packedValues[i].value

\* three values came back, the second of them 64 bits wide and starting in
\* the middle of a byte, the third ending in the middle of a byte
C18_Witness ==
    /\ Len(packedValues) = 3
    /\ Len(unpackedValues) = 3
    /\ packedValues[1].bits % 8 = 3
    /\ packedValues[2].bits = U64_BITS
    /\ packedValues[2].value \notin {ZeroWord, PatternValue(1, 2, U64_BITS)}
    /\ packedValues[3].bits = 5
    /\ \A i \in 1..3 : unpackedValues[i] = packedValues[i].value

RECURSIVE SumBits(_, _)
SumBits(pairs, n) == IF n = 0 THEN 0 ELSE SumBits(pairs, n - 1) + pairs[n].bits

\* the number of bits pack_value was given
TotalBits == SumBits(packedValues, Len(packedValues))

\* the unpacker has read every width that was packed
ReadAll == bitUnpacker # <<>> /\ Len(unpackedValues) = Len(packedValues)

\* C20, as stated: for any sequence of (v_i, b_i) with v_i < 2^b_i,
\* byte_used() after packing the sequence equals the byte index reached by a
\* BitUnpacker after reading the same sequence of widths, and is the smallest
\* number of bytes containing all bits written.
C20_ByteUsedIsUnpackerIndex ==
    /\ 8 * ByteUsed(bitPacker) >= TotalBits
    /\ 8 * (ByteUsed(bitPacker) - 1) < TotalBits \/ TotalBits = 0
    /\ ReadAll => ByteUsed(bitPacker) = bitUnpacker.byte_index

\* C20, amended: byte_used() after packing the sequence is the smallest number
\* of bytes containing all bits written, and equals the number of bytes a
\* BitUnpacker has read from after reading the same sequence of widths: its
\* byte index when the widths sum to a multiple of 8, its byte index plus one
\* otherwise.
C20_ByteUsedIsBytesRead ==
    /\ 8 * ByteUsed(bitPacker) >= TotalBits
    /\ 8 * (ByteUsed(bitPacker) - 1) < TotalBits \/ TotalBits = 0
    /\ ReadAll =>
           ByteUsed(bitPacker)
               = bitUnpacker.byte_index + (IF TotalBits % 8 = 0 THEN 0 ELSE 1)

\* three values of 77 bits in all were read back: byte_used() is 10 and the
\* unpacker stands in byte 9
C20_Witness ==
    /\ ReadAll
    /\ Len(packedValues) = 3
    /\ TotalBits = 77
    /\ ByteUsed(bitPacker) = 10
    /\ bitUnpacker.byte_index = 9
    /\ bitUnpacker.byte_bit_used = 5

(***************************************************************************)
(* Values of width 0 packed and read at every cursor position              *)
(***************************************************************************)
\* the widths of a value packed after n others: the first leaves the cursor
\* at every bit of the first and of the second byte, the others are 0 or 5
ZeroWidthsAfter(n) == IF n = 0 THEN 0..15 ELSE {0, 5}

\* the values packed at a width: any u64 at width 0 (all ones, and an
\* irregular filling of the 64 bits), a value below 2^bits otherwise
ZeroWidthValues(n, bits) ==
    IF bits = 0 THEN {PatternValue(1, n + 1, U64_BITS), PatternValue(3, n + 1, U64_BITS)}
    ELSE {PatternValue(3, n + 1, bits)}

InitZeroWidth ==
    /\ sk = New(8)
    /\ trueCount = ZeroCounts
    /\ other = New(8)
    /\ otherTrue = ZeroCounts
    /\ lastOp = "new"
    /\ prev = New(8)
    /\ image = <<>>
    /\ decoded = NoResult
    /\ ThetaIdle
    /\ SketchesIdle
    /\ \E fill \in {0, 171} : NewPacker([i \in 1..PackBufLen |-> fill])
    /\ blockBits = 0
    /\ blockValues = <<>>
    /\ blockBytes = <<>>
    /\ blockOut = <<>>

NextZeroWidth ==
    \/ \E bits \in ZeroWidthsAfter(Len(packedValues)) :
           \E value \in ZeroWidthValues(Len(packedValues), bits) :
               /\ Len(packedValues) < MaxPackLen
               /\ DoPackValue(value, bits)
    \/ \E bytes \in PackedBuffers : DoNewUnpacker(bytes)
    \/ DoUnpackValue

SpecZeroWidth == InitZeroWidth /\ [][NextZeroWidth]_vars

\* a step of pack_value with width 0 / of unpack_value with width 0
PackedZeroWidth ==
    /\ Len(packedValues') = Len(packedValues) + 1
    /\ packedValues'[Len(packedValues')].bits = 0

UnpackedZeroWidth ==
    /\ Len(unpackedValues') = Len(unpackedValues) + 1
    /\ ReadWidths[Len(unpackedValues')] = 0

\* C30: BitPacker::pack_value(v, 0) is a no-op for every value v and every
\* cursor position (any byte_index and any byte_bit_used in 0..=7, including
\* mid-byte): the buffer contents, byte_index and byte_bit_used are unchanged;
\* BitUnpacker::unpack_value(0) returns 0 and leaves its cursor unchanged.
C30_ZeroWidthIsNoOp ==
    [][/\ PackedZeroWidth => bitPacker' = bitPacker
       /\ UnpackedZeroWidth =>
              /\ bitUnpacker' = bitUnpacker
              /\ unpackedValues'[Len(unpackedValues')] = ZeroWord]_vars

\* a value of all ones was packed at width 0 with the cursor in the middle of
\* the second byte, and was read back as 0 at that position
C30_Witness ==
    /\ Len(packedValues) >= 2
    /\ packedValues[1].bits = 11
    /\ packedValues[2] = [value |-> PatternValue(1, 2, U64_BITS), bits |-> 0]
    /\ ~bitPacker.panicked
    /\ Len(unpackedValues) = 2
    /\ unpackedValues[2] = ZeroWord
    /\ bitUnpacker.byte_index = 1
    /\ bitUnpacker.byte_bit_used = 3

(***************************************************************************)
(* One HLL Array8 driven by coupons, serialized and read back              *)
(***************************************************************************)
\* the number of coupons passed to one array
MaxCoupons == 3

\* lg_config_k of the arrays: 16 registers
LgConfigKs == {4}

\* the coupons: the first slot and one past the end of the array, which the
\* mask folds onto the second, with a value on each side of 32
Coupons == {pack_coupon(slot, value) : slot \in {0, 17}, value \in {5, 42}}

\* the num_zeros field written into an image in place of the one serialized
CraftedNumZeros == {0}

InitArray8 ==
    /\ sk = New(8)
    /\ trueCount = ZeroCounts
    /\ other = New(8)
    /\ otherTrue = ZeroCounts
    /\ lastOp = "new"
    /\ prev = New(8)
    /\ image = <<>>
    /\ decoded = NoResult
    /\ ThetaIdle
    /\ PackIdle
    /\ array8 \in {Array8New(lg_config_k) : lg_config_k \in LgConfigKs}
    /\ array8Coupons = <<>>
    /\ array8Image = <<>>
    /\ array8Restored = NoResult
    /\ countMin = <<>>
    /\ countMinUpdates = <<>>

\* the array was read from an image and took the place of the one written
Adopted == array8Restored.ok /\ array8Restored.adopted

\* arr.update(coupon), before an image is taken or on the array read from it;
\* the build's overflow checks are chosen where they decide the outcome
DoArray8Update(coupon, overflow_checks) ==
    /\ lastOp # "panic"
    /\ array8Image = <<>> \/ Adopted
    /\ Len(array8Coupons) < MaxCoupons
    /\ overflow_checks => array8.num_zeros = 0
    /\ LET r == Array8Update(array8, coupon, overflow_checks)
       IN  /\ array8' = r.array
           /\ lastOp' = IF r.panicked THEN "panic" ELSE "update"
    /\ array8Coupons' = Append(array8Coupons, coupon)
    /\ UNCHANGED <<array8Image, array8Restored, countMinVars>>
    /\ UNCHANGED <<sk, trueCount, other, otherTrue, prev, image, decoded>>
    /\ UNCHANGED <<thetaVars, packVars>>

\* let bytes = arr.serialize(lg_config_k)
DoArray8Serialize ==
    /\ array8Image = <<>>
    /\ array8Image' = [bytes   |-> Array8Serialize(array8, array8.lg_config_k),
                       crafted |-> FALSE]
    /\ UNCHANGED <<array8, array8Coupons, array8Restored, countMinVars>>
    /\ UNCHANGED <<freqVars, thetaVars, packVars>>

\* the image with another num_zeros field, or cut after the preamble
DoArray8Craft(bytes) ==
    /\ array8Image # <<>>
    /\ ~array8Image.crafted
    /\ array8Restored = NoResult
    /\ bytes # array8Image.bytes
    /\ array8Image' = [bytes |-> bytes, crafted |-> TRUE]
    /\ UNCHANGED <<array8, array8Coupons, array8Restored, countMinVars>>
    /\ UNCHANGED <<freqVars, thetaVars, packVars>>

\* Array8::deserialize(&bytes, lg_config_k, compact, ooo)
DoArray8Deserialize(compact, ooo) ==
    /\ array8Image # <<>>
    /\ array8Restored = NoResult
    /\ array8Restored' =
           Array8Deserialize(array8Image.bytes, array8.lg_config_k, compact, ooo)
               @@ [compact |-> compact, ooo |-> ooo, adopted |-> FALSE]
    /\ UNCHANGED <<array8, array8Coupons, array8Image, countMinVars>>
    /\ UNCHANGED <<freqVars, thetaVars, packVars>>

\* the array that was read takes the place of the one that was written
DoArray8Adopt ==
    /\ array8Restored.ok
    /\ ~array8Restored.adopted
    /\ array8' = array8Restored.array
    /\ array8Restored' = [array8Restored EXCEPT !.adopted = TRUE]
    /\ UNCHANGED <<array8Coupons, array8Image, countMinVars>>
    /\ UNCHANGED <<freqVars, thetaVars, packVars>>

NextArray8 ==
    \/ \E coupon \in Coupons, overflow_checks \in BOOLEAN :
           DoArray8Update(coupon, overflow_checks)
    \/ DoArray8Serialize
    \/ \E n \in CraftedNumZeros :
           DoArray8Craft(WriteAt(array8Image.bytes, CUR_MIN_COUNT_INT, LeBytes(n, 4)))
    \/ DoArray8Craft(SubSeq(array8Image.bytes, 1, HLL_PREAMBLE_SIZE))
    \/ \E compact \in BOOLEAN, ooo \in BOOLEAN : DoArray8Deserialize(compact, ooo)
    \/ DoArray8Adopt

SpecArray8 == InitArray8 /\ [][NextArray8]_vars

\* C22: for an HLL Array8 and any sequence of update(coupon) calls, every
\* register value is non-decreasing over time: each update changes at most the
\* one register at slot (coupon_slot & (2^lg_k - 1)), setting it to
\* max(old, coupon_value), and leaves all other registers unchanged.
C22_RegistersNonDecreasing ==
    [][Len(array8Coupons') = Len(array8Coupons) + 1 =>
           LET coupon == array8Coupons'[Len(array8Coupons')]
               slot   == coupon.slot % Pow2(array8.lg_config_k)
           IN  /\ \A i \in 1..Len(array8.bytes) : array8'.bytes[i] >= array8.bytes[i]
               /\ array8'.bytes =
                      [array8.bytes EXCEPT ![slot + 1] = Max(@, coupon.value)]]_vars

\* register 1 was raised to 42 by a coupon for slot 17, kept 42 when a coupon
\* brought 5, and register 0 was raised to 5
C22_Witness ==
    /\ array8Image = <<>>
    /\ array8Coupons = <<pack_coupon(17, 42), pack_coupon(17, 5), pack_coupon(0, 5)>>
    /\ array8.bytes[2] = 42
    /\ array8.bytes[1] = 5
    /\ array8.num_zeros = 14

\* the number of registers of the array that hold 0
ZeroRegisters(a) == Cardinality({i \in 1..Len(a.bytes) : a.bytes[i] = 0})

\* C23: in every state of an HLL Array8 obtained from new(lg_k) or from a
\* successful deserialize, followed by any sequence of update calls, num_zeros
\* equals the number of registers whose value is 0.
C23_NumZerosCountsZeroRegisters ==
    /\ array8.num_zeros = ZeroRegisters(array8)
    /\ array8Restored.ok => array8Restored.array.num_zeros = ZeroRegisters(array8Restored.array)

\* the image was written by serialize and read in full with the flag of the
\* array it was written from
RoundTripped ==
    /\ array8Restored.ok
    /\ ~array8Restored.adopted
    /\ ~array8Image.crafted
    /\ ~array8Restored.compact
    /\ array8Restored.ooo = array8.estimator.out_of_order

\* C24: for every Array8 a reachable from new(lg_k) by updates,
\* deserialize(a.serialize(lg_k), lg_k, compact = false, ooo = a's out-of-order
\* flag) returns an Array8 equal to a in registers, num_zeros, hip_accum, kxq0,
\* kxq1 and out-of-order flag, so estimate() is identical before and after the
\* round trip; the out-of-order flag written in the flags byte is the
\* estimator's flag.
C24_RoundTripPreservesArray ==
    /\ RoundTripped =>
           /\ array8Restored.array = array8
           /\ Array8Estimate(array8Restored.array) = Array8Estimate(array8)
    /\ array8Image # <<>> /\ ~array8Image.crafted /\ ~Adopted =>
           (BitAnd(array8Image.bytes[HLL_FLAGS_BYTE + 1], OUT_OF_ORDER_FLAG_MASK) # 0)
               = array8.estimator.out_of_order

\* an array with registers 5 and 42, whose accumulator is neither 0.0 nor 1.0
\* and whose kxq1 is not 0.0, came back equal from its image
C24_Witness ==
    /\ RoundTripped
    /\ array8.bytes[1] = 5
    /\ array8.bytes[2] = 42
    /\ array8.estimator.hip_accum \notin {ZeroWord, F64Pow2(0)}
    /\ array8.estimator.kxq1 # ZeroWord
    /\ array8Restored.array.estimator = array8.estimator
    /\ array8Restored.array.num_zeros = 14

(***************************************************************************)
(* Count-Min: countmin/value.rs and the sketch over it                     *)
(***************************************************************************)
I8_MIN == -128
I8_MAX == 127
U8_MAX == 255

\* the value types of the model: the narrowest signed and unsigned ones
ValueTypes == {"i8", "u8"}

\* CountMinValue::ZERO, ONE and MAX; the least value of the type
ValueZero == 0
ValueOne == 1
ValueMax(value_type) == IF value_type = "i8" THEN I8_MAX ELSE U8_MAX
ValueMin(value_type) == IF value_type = "i8" THEN I8_MIN ELSE 0

\* the value of the type congruent to n modulo 2^8
ValueWrap(value_type, n) ==
    LET lo == ValueMin(value_type)
    IN  lo + ((n - lo) % (ValueMax(value_type) - lo + 1))

\* add with the right operand taking the place of the sum
ValueAdd_Assign(value_type, self, rhs, overflow_checks) ==
    [value |-> rhs, panicked |-> FALSE, wrapped |-> FALSE]

\* CountMinValue::add: self + other, which panics on overflow when the build
\* checks it and wraps when it does not
ValueAdd(value_type, self, rhs, overflow_checks) ==
    LET sum     == self + rhs
        wrapped == ValueWrap(value_type, sum)
    IN  [value    |-> wrapped,
         panicked |-> overflow_checks /\ wrapped # sum,
         wrapped  |-> wrapped # sum]

\* CountMinValue::abs (no weight of the model is the least value of its type)
ValueAbs(value_type, self) ==
    IF value_type = "i8" THEN (IF self >= 0 THEN self ELSE 0 - self) ELSE self

\* CountMinSketch::new(num_hashes, num_buckets): the counters are zero; the
\* hash functions derived from the seed are kept as the bucket they give each
\* item in each row
CountMinNew(value_type, num_hashes, num_buckets, hash) ==
    [value_type   |-> value_type,
     num_hashes   |-> num_hashes,
     num_buckets  |-> num_buckets,
     hash         |-> hash,
     counts       |-> [i \in 1..(num_hashes * num_buckets) |-> ValueZero],
     total_weight |-> ValueZero]

\* the position in counts of the counter of `item` in `row`
CounterIndex(s, item, row) == row * s.num_buckets + s.hash[<<item, row>>] + 1

\* the rows row..num_hashes-1 of update_with_weight: each adds the weight to
\* the counter of the item
RECURSIVE UpdateRows(_, _, _, _, _)
UpdateRows(s, item, weight, row, overflow_checks) ==
    IF row >= s.num_hashes
    THEN [counts |-> s.counts, panicked |-> FALSE, wrapped |-> FALSE]
    ELSE LET i    == CounterIndex(s, item, row)
             a    == ValueAdd(s.value_type, s.counts[i], weight, overflow_checks)
             rest == UpdateRows([s EXCEPT !.counts[i] = a.value], item, weight,
                                row + 1, overflow_checks)
         IN  [counts   |-> rest.counts,
              panicked |-> a.panicked \/ rest.panicked,
              wrapped  |-> a.wrapped \/ rest.wrapped]

\* CountMinSketch::update_with_weight(item, weight): the d counters of the
\* item take the weight and total_weight its absolute value
CountMinUpdateWithWeight(s, item, weight, overflow_checks) ==
    LET rows  == UpdateRows(s, item, weight, 0, overflow_checks)
        total == ValueAdd(s.value_type, s.total_weight,
                          ValueAbs(s.value_type, weight), overflow_checks)
    IN  [sketch   |-> [s EXCEPT !.counts = rows.counts,
                                !.total_weight = total.value],
         panicked |-> rows.panicked \/ total.panicked,
         wrapped  |-> rows.wrapped]

\* CountMinSketch::update(item): a unit update
CountMinUpdate(s, item, overflow_checks) ==
    CountMinUpdateWithWeight(s, item, ValueOne, overflow_checks)

\* the d counters of `item`
ItemCounters(s, item) ==
    {s.counts[CounterIndex(s, item, row)] : row \in 0..(s.num_hashes - 1)}

\* CountMinSketch::estimate(item): the least of the d counters for an unsigned
\* type; for a signed type a counter of least magnitude, any of them when
\* several have it.  The set of the values estimate may return.
CountMinEstimates(s, item) ==
    LET cs == ItemCounters(s, item)
    IN  IF s.value_type = "u8"
        THEN {c \in cs : \A o \in cs : c <= o}
        ELSE {c \in cs : \A o \in cs :
                  ValueAbs(s.value_type, c) <= ValueAbs(s.value_type, o)}

(***************************************************************************)
(* Updates of one Count-Min sketch, with the sum of the weights passed for *)
(* each item kept beside it.                                               *)
(***************************************************************************)
MaxCountMinUpdates == 3

\* the items, and the shapes of the sketch: the least number of buckets
CountMinItems == {0, 1}
NumHashes == {1, 2}
NumBuckets == {3}

\* the weights update_with_weight is given: small ones, a negative one where
\* the type has them, and one that overflows the type when it is repeated
Weights(value_type) == IF value_type = "i8" THEN {0 - 1, 2, 100} ELSE {2, 200}

InitCountMin ==
    /\ sk = New(8)
    /\ trueCount = ZeroCounts
    /\ other = New(8)
    /\ otherTrue = ZeroCounts
    /\ lastOp = "new"
    /\ prev = New(8)
    /\ image = <<>>
    /\ decoded = NoResult
    /\ ThetaIdle
    /\ PackIdle
    /\ array8 = <<>>
    /\ array8Coupons = <<>>
    /\ array8Image = <<>>
    /\ array8Restored = NoResult
    /\ \E value_type \in ValueTypes, num_hashes \in NumHashes, num_buckets \in NumBuckets :
         \E hash \in [CountMinItems \X (0..(num_hashes - 1)) -> 0..(num_buckets - 1)] :
            countMin = CountMinNew(value_type, num_hashes, num_buckets, hash)
    /\ countMinUpdates = [true_count |-> [x \in CountMinItems |-> 0],
                          calls      |-> 0,
                          negative   |-> FALSE,
                          wrapped    |-> FALSE]

\* what both updates do to the sketch and to the sums kept beside it
CountMinStep(item, weight, r) ==
    /\ countMin' = r.sketch
    /\ lastOp' = IF r.panicked THEN "panic" ELSE "update"
    /\ countMinUpdates' =
           [true_count |-> [countMinUpdates.true_count EXCEPT ![item] = @ + weight],
            calls      |-> countMinUpdates.calls + 1,
            negative   |-> countMinUpdates.negative \/ weight < 0,
            wrapped    |-> countMinUpdates.wrapped \/ r.wrapped]
    /\ UNCHANGED hllVars
    /\ UNCHANGED <<sk, trueCount, other, otherTrue, prev, image, decoded>>
    /\ UNCHANGED <<thetaVars, packVars>>

\* sketch.update(item)
DoCountMinUpdate(item, overflow_checks) ==
    /\ lastOp # "panic"
    /\ countMinUpdates.calls < MaxCountMinUpdates
    /\ CountMinStep(item, ValueOne, CountMinUpdate(countMin, item, overflow_checks))

\* sketch.update_with_weight(item, weight)
DoCountMinUpdateWithWeight(item, weight, overflow_checks) ==
    /\ lastOp # "panic"
    /\ countMinUpdates.calls < MaxCountMinUpdates
    /\ CountMinStep(item, weight,
                    CountMinUpdateWithWeight(countMin, item, weight, overflow_checks))

NextCountMin ==
    \/ \E item \in CountMinItems, overflow_checks \in BOOLEAN :
           DoCountMinUpdate(item, overflow_checks)
    \/ \E item \in CountMinItems, overflow_checks \in BOOLEAN :
         \E weight \in Weights(countMin.value_type) :
           DoCountMinUpdateWithWeight(item, weight, overflow_checks)

SpecCountMin == InitCountMin /\ [][NextCountMin]_vars

\* every value estimate may return for `item` is at least the sum of the
\* weights passed for it
Overestimates(item) ==
    \A e \in CountMinEstimates(countMin, item) :
        e >= countMinUpdates.true_count[item]

\* C25 as stated: after every sequence of update / update_with_weight calls,
\* estimate(x) >= true_count(x) for every item x
C25_EstimateAtLeastTrueCount ==
    lastOp # "panic" => \A item \in CountMinItems : Overestimates(item)

\* C25, amended: after every sequence of update / update_with_weight calls
\* with no negative weight and no counter addition that overflows the value
\* type, estimate(x) >= true_count(x) for every item x
C25_EstimateAtLeastTrueCount_NonNegative ==
    (lastOp # "panic" /\ ~countMinUpdates.negative /\ ~countMinUpdates.wrapped)
        => \A item \in CountMinItems : Overestimates(item)

\* two items share their counter in both rows, both were updated, and the
\* estimate of one exceeds its own sum
C25_Witness ==
    /\ lastOp = "update"
    /\ countMin.num_hashes = 2
    /\ ~countMinUpdates.negative
    /\ ~countMinUpdates.wrapped
    /\ countMinUpdates.calls = MaxCountMinUpdates
    /\ countMinUpdates.true_count[0] > 0
    /\ countMinUpdates.true_count[1] > 0
    /\ \A row \in 0..1 : countMin.hash[<<0, row>>] = countMin.hash[<<1, row>>]
    /\ \E e \in CountMinEstimates(countMin, 0) : e > countMinUpdates.true_count[0]

(***************************************************************************)
(* One sketch driven by updates and resets, over keys whose home slots     *)
(* in a map of 8 slots are 5, 3, 3, 4, 7, 2 and 7: two pairs collide, one  *)
(* cluster runs from slot 2 to slot 6 and one wraps around the end.        *)
(***************************************************************************)
MaxMapWeight == 9

MapKeys == {1, 2, 5, 8, 10, 12, 13}

\* the counts passed to update_with_count: none, and more than update gives
KeyCounts == {0, 2}

\* what get is to return for each key: the amounts added since the key was
\* last inserted, less the medians the purges subtracted; a key whose sum a
\* purge brought to zero was dropped
Ledger(sums, item, count, median) ==
    [k \in MapKeys |->
        LET sum == sums[k] + (IF k = item THEN count ELSE 0)
        IN  IF sum > median THEN sum - median ELSE 0]

InitMapOps ==
    /\ sk \in {New(M) : M \in MaxMapSizes}
    /\ trueCount = [k \in MapKeys |-> 0]
    /\ other = New(8)
    /\ otherTrue = ZeroCounts
    /\ lastOp = "new"
    /\ prev = New(8)
    /\ image = <<>>
    /\ decoded = NoResult
    /\ ThetaIdle
    /\ PackIdle
    /\ SketchesIdle

\* sketch.update(item)
DoKeyUpdate(item) ==
    /\ sk.stream_weight + 1 <= MaxMapWeight
    /\ sk' = Update(sk, item)
    /\ trueCount' = Ledger(trueCount, item, 1, sk'.offset - sk.offset)
    /\ lastOp' = "update"
    /\ prev' = New(8)
    /\ UNCHANGED <<other, otherTrue, image, decoded>>
    /\ UNCHANGED <<thetaVars, packVars, hllVars, countMinVars>>

\* sketch.update_with_count(item, count)
DoKeyUpdateWithCount(item, count) ==
    /\ sk.stream_weight + count <= MaxMapWeight
    /\ sk' = UpdateWithCount(sk, item, count)
    /\ trueCount' = Ledger(trueCount, item, count, sk'.offset - sk.offset)
    /\ lastOp' = "update"
    /\ prev' = New(8)
    /\ UNCHANGED <<other, otherTrue, image, decoded>>
    /\ UNCHANGED <<thetaVars, packVars, hllVars, countMinVars>>

\* sketch.reset(); prev is the sketch it was called on
DoReset ==
    /\ sk' = Reset(sk)
    /\ trueCount' = [k \in MapKeys |-> 0]
    /\ lastOp' = "reset"
    /\ prev' = sk
    /\ UNCHANGED <<other, otherTrue, image, decoded>>
    /\ UNCHANGED <<thetaVars, packVars, hllVars, countMinVars>>

NextMapOps ==
    \/ \E item \in MapKeys : DoKeyUpdate(item)
    \/ \E item \in MapKeys, count \in KeyCounts : DoKeyUpdateWithCount(item, count)
    \/ DoReset

SpecMapOps == InitMapOps /\ [][NextMapOps]_vars

\* C26: reset() leaves the sketch in the state new() gives for the same
\* maximum map size: no active item, offset 0, total weight 0, a map of 2^3
\* slots with capacity 6 and lg_max_map_size as before; a second reset
\* changes nothing.
C26_ResetIsNew ==
    lastOp = "reset" =>
        /\ sk = New(Pow2(prev.lg_max_map_size))
        /\ NumActiveItems(sk) = 0
        /\ MaximumError(sk) = 0
        /\ TotalWeight(sk) = 0
        /\ MapLen(sk.hash_map) = Pow2(LG_MIN_MAP_SIZE)
        /\ sk.cur_map_cap = 6
        /\ sk.lg_max_map_size = prev.lg_max_map_size
        /\ Reset(sk) = sk

\* a reset of a sketch that had purged, and of one whose map had grown
C26_Witness ==
    /\ lastOp = "reset"
    /\ sk = New(8)
    /\ prev.offset > 0
    /\ NumActiveItems(prev) > 0

\* the slots of a map, counted from 0 as the code does
Slots(m) == 0..(MapLen(m) - 1)
IsActive(m, i) == m.states[i + 1] > 0

\* the slot the probe sequence of a key starts at
Home(m, key) == HashItem(key) % MapLen(m)

\* the step purged: the map was at its greatest length and over its capacity
\* after the insertion
Purged == sk'.offset > sk.offset

\* C27: a purge removes at least one entry, so the panic 'purge did not
\* reduce number of active items' is never reached; after every update
\* num_active_items() <= current_map_capacity() = floor(0.75 * map length),
\* and the map keeps at least one empty slot.
C27_PurgeKeepsCapacity ==
    /\ [](/\ ~sk.panicked
          /\ NumActiveItems(sk) <= sk.cur_map_cap
          /\ NumActiveItems(sk) <= MaximumMapCapacity(sk)
          /\ sk.cur_map_cap = (3 * MapLen(sk.hash_map)) \div 4
          /\ \E i \in Slots(sk.hash_map) : ~IsActive(sk.hash_map, i))
    /\ [][Purged => NumActiveItems(sk') <= NumActiveItems(sk)]_vars

\* after a purge that dropped some counters and kept others
C27_Witness ==
    /\ lastOp = "update"
    /\ sk.offset > 0
    /\ NumActiveItems(sk) > 0
    /\ NumActiveItems(sk) < sk.cur_map_cap

\* the slots from the home slot of the key in slot i up to slot i
Chain(m, i) ==
    LET n == MapLen(m)
        d == (i - Home(m, m.keys[i + 1]) + n) % n
    IN  {(Home(m, m.keys[i + 1]) + j) % n : j \in 0..d}

\* C28: every active key is found by get with its value; the state of an
\* active slot i holding k is 1 + (i - home(k)) mod N, and every slot from
\* home(k) to i is occupied -- also after the shifts of hash_delete.
C28_ProbeChains ==
    /\ \A i \in Slots(sk.hash_map) :
           IsActive(sk.hash_map, i) =>
               LET m == sk.hash_map
                   k == m.keys[i + 1]
               IN  /\ HashProbe(m, k) = i
                   /\ Get(m, k) = m.values[i + 1]
                   /\ Get(m, k) = trueCount[k]
                   /\ m.states[i + 1] - 1 = (i - Home(m, k) + MapLen(m)) % MapLen(m)
                   /\ \A j \in Chain(m, i) : IsActive(m, j)
    /\ \A k \in MapKeys : Get(sk.hash_map, k) = trueCount[k]

\* after a purge, a key sits before its home slot: its chain wraps around
\* the end of the array
C28_Witness ==
    /\ sk.offset > 0
    /\ \E i \in Slots(sk.hash_map) :
           /\ IsActive(sk.hash_map, i)
           /\ i < Home(sk.hash_map, sk.hash_map.keys[i + 1])

\* C29: a slot has a key exactly when its state is positive; num_active is
\* the number of such slots; every active value is positive; no key is in
\* two slots; the length is a power of two and load_threshold is
\* floor(0.75 * length).
C29_MapWellFormed ==
    LET m == sk.hash_map
    IN  /\ \A i \in Slots(m) : (m.keys[i + 1] # NoKey) <=> IsActive(m, i)
        /\ m.num_active = Cardinality({i \in Slots(m) : IsActive(m, i)})
        /\ \A i \in Slots(m) : IsActive(m, i) => m.values[i + 1] > 0
        /\ \A i, j \in Slots(m) :
               (IsActive(m, i) /\ IsActive(m, j) /\ m.keys[i + 1] = m.keys[j + 1])
                   => i = j
        /\ MapLen(m) = Pow2(m.lg_length)
        /\ Len(m.values) = MapLen(m)
        /\ Len(m.states) = MapLen(m)
        /\ m.load_threshold = (3 * MapLen(m)) \div 4

\* after a purge: some counters are left, and a slot that was vacated still
\* holds the value of the counter that left it
C29_Witness ==
    /\ sk.offset > 0
    /\ NumActiveItems(sk) > 0
    /\ \E i \in Slots(sk.hash_map) :
           ~IsActive(sk.hash_map, i) /\ sk.hash_map.values[i + 1] > 0

====
